---- MODULE Spec2Model ----
(***************************************************************************)
(* A model of RedisClientCache (src/redis-client-cache.js, lines 1-661):   *)
(* the module-scope cache of redis clients by host-port key, the reuse /   *)
(* replace decision of setRedisClient, deletion, clearing, and the         *)
(* asynchronous disconnect through the promisified `end` function.         *)
(*                                                                         *)
(* JavaScript values are written as follows.  A primitive is the string of *)
(* its literal ("true", "6379", "undefined", "localhost").  An options     *)
(* object is the sequence of its own properties <<name, value>> in         *)
(* insertion order.  A redis client is its number in `clients` (0 is       *)
(* undefined).  A host-port key object and a host-port string are records  *)
(* tagged with their JavaScript type, so that the two never compare equal. *)
(* A promise is a record [state, value].                                   *)
(*                                                                         *)
(* A JavaScript function is an operator from the state it runs in to the   *)
(* state it leaves and the value it returns.  Let(e, LAMBDA x : ...) names *)
(* a value once, as `const x = e` does.                                    *)
(***************************************************************************)
EXTENDS Integers, Sequences, FiniteSets, Bags, TLC

VARIABLES
  redisClientsByHostPortKey,        \* WeakMap: host-port key object -> client
  redisClientOptionsByHostPortKey,  \* WeakMap: host-port key object -> options used
  hostPortKeysByHostPort,           \* Map: host-port string -> host-port key object
  hostPortKeysMinted,               \* number of host-port key objects created so far
  clients,                          \* every redis client constructed so far
  pending,                          \* bag of `end` invocations whose callback has not fired
  clearing,                         \* clearCache calls whose Promise.all has not settled
  endsFailed,                       \* the clients whose `end` has failed, in that order
  clientFunctions,                  \* the functions of the adapter's client prototype
  last                              \* the step taken last: operation, arguments, outcome

vars == <<redisClientsByHostPortKey, redisClientOptionsByHostPortKey,
          hostPortKeysByHostPort, hostPortKeysMinted, clients, pending,
          clearing, endsFailed, clientFunctions, last>>

----------------------------------------------------------------------------
(* Bounds of the model *)

\* redis clients constructed in one run
MaxClients == 2

\* `end` invocations in flight at one time
MaxPending == 2

\* clearCache calls in flight at one time
MaxClearing == 1

\* `end` invocations that fail in one run
MaxEndsFailed == 1

\* invocations of other promisified functions in flight at one time
MaxInFlight == 1

\* callbacks of failing `end` invocations followed one after the other
MaxChain == 4

----------------------------------------------------------------------------
(* The redis adapter's defaults and the inputs callers supply *)

defaultHost == "127.0.0.1"

defaultPort == "6379"

otherHost == "localhost"

otherPort == "9999"

\* the endpoints of the unit test: host0/port0 (= host1/port1) and host2/port2
Endpoints == {<<defaultHost, defaultPort>>, <<otherHost, otherPort>>}

Undefined == "undefined"

NoClient == 0

UndefinedValue == [type |-> "undefined"]

Obj(props) == [type |-> "object", props |-> props]

\* const x = e, followed by the code that uses x
Let(e, body(_)) == body(e)

\* JavaScript truthiness of a primitive written as its literal
Falsy(v) == v \in {Undefined, "null", "false", "0", "''"}

----------------------------------------------------------------------------
(* Plain objects: own properties in insertion order *)

Has(o, name) == \E i \in 1..Len(o) : o[i][1] = name

Get(o, name) ==
  IF Has(o, name) THEN o[CHOOSE i \in 1..Len(o) : o[i][1] = name][2] ELSE Undefined

\* o[name] = value: an existing property keeps its place, a new one goes last
Put(o, name, value) ==
  IF Has(o, name)
  THEN [i \in 1..Len(o) |-> IF o[i][1] = name THEN <<name, value>> ELSE o[i]]
  ELSE Append(o, <<name, value>>)

\* an object a caller holds on to is told apart from its copies by its identity, which
\* is kept with its properties under a name that is no property's
Identity == "[[identity]]"

OwnPropertyNames(o) == {o[i][1] : i \in 1..Len(o)} \ {Identity}

\* a mutant of copy: gives back the object it was given
copySameObject(o) == o

\* copy(o, {deep: true}) of an object of primitives: another object, with the same
\* properties in the same order
copy(o) == SelectSeq(o, LAMBDA property : property[1] # Identity)

\* a mutant of deepEqual: compares the properties in the order they were written
deepEqualOrdered(a, b) == a = b

\* a mutant of deepEqual: loose, undefined equals a missing property and false
deepEqualLoose(a, b) ==
  \A name \in OwnPropertyNames(a) \cup OwnPropertyNames(b) :
    \/ Get(a, name) = Get(b, name)
    \/ Falsy(Get(a, name)) /\ Falsy(Get(b, name))

\* deepEqual(a, b, {strict: true}) of two objects of primitives: the same own
\* property names, whatever their order, and === values
deepEqual(a, b) ==
  /\ OwnPropertyNames(a) = OwnPropertyNames(b)
  /\ \A name \in OwnPropertyNames(a) : Get(a, name) = Get(b, name)

----------------------------------------------------------------------------
(* Map and WeakMap *)

SameValueZero(x, y) == x.type = y.type /\ x = y

MapHas(m, key) == \E i \in 1..Len(m) : SameValueZero(m[i].key, key)

MapGet(m, key) ==
  IF MapHas(m, key)
  THEN m[CHOOSE i \in 1..Len(m) : SameValueZero(m[i].key, key)].value
  ELSE UndefinedValue

MapSet(m, key, value) ==
  IF MapHas(m, key)
  THEN [i \in 1..Len(m) |->
          IF SameValueZero(m[i].key, key) THEN [key |-> key, value |-> value] ELSE m[i]]
  ELSE Append(m, [key |-> key, value |-> value])

MapDelete(m, key) == SelectSeq(m, LAMBDA e : ~SameValueZero(e.key, key))

MapValues(m) == [i \in 1..Len(m) |-> m[i].value]

WeakHas(m, key) == key \in DOMAIN m

WeakSet(m, key, value) == [k \in DOMAIN m \cup {key} |-> IF k = key THEN value ELSE m[k]]

WeakDelete(m, key) == [k \in DOMAIN m \ {key} |-> m[k]]

EmptyWeakMap == [k \in {} |-> NoClient]


----------------------------------------------------------------------------
(* The mutable state a function runs in, and promises *)

World ==
  [redisClientsByHostPortKey |-> redisClientsByHostPortKey,
   redisClientOptionsByHostPortKey |-> redisClientOptionsByHostPortKey,
   hostPortKeysByHostPort |-> hostPortKeysByHostPort,
   hostPortKeysMinted |-> hostPortKeysMinted,
   clients |-> clients,
   pending |-> pending,
   clearing |-> clearing,
   endsFailed |-> endsFailed,
   clientFunctions |-> clientFunctions,
   disconnects |-> {},   \* clients this step called disconnectClient on
   ended |-> {},         \* clients this step invoked `end` on
   invoked |-> {}]       \* <<function, client>> this step invoked through fnAsync

Resolved(v) == [state |-> "resolved", value |-> v]

Rejected(e) == [state |-> "rejected", value |-> e]

Pending == [state |-> "pending", value |-> Undefined]

\* the handlers put on the promise a disconnect returns: none worth keeping
NoCont == [kind |-> "none"]

----------------------------------------------------------------------------
(* The redis client, as the adapter presents it *)

isClosing(w, redisClient) == w.clients[redisClient].closing

resolveHostAndPort(w, redisClient) ==
  [host |-> w.clients[redisClient].host, port |-> w.clients[redisClient].port]

getOptions(w, redisClient) == w.clients[redisClient].options

\* redis.createClient(options): a new client, not closing, for the options' host and port
createClient(w, options) ==
  [w |-> [w EXCEPT !.clients =
            Append(@, [host |-> Get(options, "host"), port |-> Get(options, "port"),
                       options |-> options, closing |-> FALSE])],
   redisClient |-> Len(w.clients) + 1]

EndOutcomes == {"ok", "err"}

\* redisClient.end(true, callback): an end that works leaves the client closing at once
\* (the callback fires later), an end that fails leaves it as it was
end(w, redisClient, endOutcome) ==
  [w EXCEPT !.clients[redisClient].closing = @ \/ endOutcome = "ok",
            !.endsFailed = IF endOutcome = "err" THEN Append(@, redisClient) ELSE @,
            !.ended = @ \cup {redisClient}]

----------------------------------------------------------------------------
(* Host-port keys *)

HostPort(host, port) == [type |-> "string", host |-> host, port |-> port]

getHostPortKey(w, host, port) == MapGet(w.hostPortKeysByHostPort, HostPort(host, port))

getOrSetHostPortKey(w, host, port) ==
  Let(MapGet(w.hostPortKeysByHostPort, HostPort(host, port)), LAMBDA found :
    IF found # UndefinedValue
    THEN [w |-> w, hostPortKey |-> found]
    ELSE Let([type |-> "object", id |-> w.hostPortKeysMinted + 1,
              host |-> host, port |-> port], LAMBDA hostPortKey :
           [w |-> [w EXCEPT !.hostPortKeysByHostPort =
                               MapSet(@, HostPort(host, port), hostPortKey),
                            !.hostPortKeysMinted = @ + 1],
            hostPortKey |-> hostPortKey]))

listHostPortKeys(w) == MapValues(w.hostPortKeysByHostPort)

\* a mutant of deleteClientByHostPortKey: forgets the options used
deleteClientOnly(w, hostPortKey) ==
  IF hostPortKey # UndefinedValue
  THEN [w |-> [w EXCEPT !.redisClientsByHostPortKey = WeakDelete(@, hostPortKey)],
        deleted |-> WeakHas(w.redisClientsByHostPortKey, hostPortKey)]
  ELSE [w |-> w, deleted |-> FALSE]

\* a mutant of deleteClientByHostPortKey: reports the deletion and deletes nothing
deleteNothing(w, hostPortKey) ==
  [w |-> w,
   deleted |-> hostPortKey # UndefinedValue /\ WeakHas(w.redisClientsByHostPortKey, hostPortKey)]

\* a mutant of deleteClientByHostPortKey: deletes, and reports that nothing was there
deleteUnreported(w, hostPortKey) ==
  IF hostPortKey # UndefinedValue
  THEN [w |-> [w EXCEPT !.redisClientOptionsByHostPortKey = WeakDelete(@, hostPortKey),
                        !.redisClientsByHostPortKey = WeakDelete(@, hostPortKey)],
        deleted |-> FALSE]
  ELSE [w |-> w, deleted |-> FALSE]

\* a mutant of deleteClientByHostPortKey: deletes the clients of every host and port
deleteEveryClient(w, hostPortKey) ==
  IF hostPortKey # UndefinedValue
  THEN [w |-> [w EXCEPT !.redisClientOptionsByHostPortKey = EmptyWeakMap,
                        !.redisClientsByHostPortKey = EmptyWeakMap],
        deleted |-> WeakHas(w.redisClientsByHostPortKey, hostPortKey)]
  ELSE [w |-> w, deleted |-> FALSE]

\* hostPortKeysByHostPort.delete is given the key object, and the map's keys are the
\* host-port strings
deleteClientByHostPortKey(w, hostPortKey) ==
  IF hostPortKey # UndefinedValue
  THEN [w |-> [w EXCEPT !.redisClientOptionsByHostPortKey = WeakDelete(@, hostPortKey),
                        !.redisClientsByHostPortKey = WeakDelete(@, hostPortKey),
                        !.hostPortKeysByHostPort = MapDelete(@, hostPortKey)],
        deleted |-> WeakHas(w.redisClientsByHostPortKey, hostPortKey)]
  ELSE [w |-> w, deleted |-> FALSE]

\* the host and port of the options, and the options with the defaults put in
resolveHostAndPortFromOptions(options) ==
  LET options1 == IF Falsy(Get(options, "host"))
                  THEN Put(options, "host", defaultHost) ELSE options
  IN [host |-> IF Falsy(Get(options, "host")) THEN defaultHost ELSE Get(options, "host"),
      port |-> IF Falsy(Get(options, "port")) THEN defaultPort ELSE Get(options, "port"),
      options |-> IF Falsy(Get(options, "port"))
                  THEN Put(options1, "port", defaultPort) ELSE options1]

----------------------------------------------------------------------------
(* Lookups *)

WeakGetClient(w, hostPortKey) ==
  IF WeakHas(w.redisClientsByHostPortKey, hostPortKey)
  THEN w.redisClientsByHostPortKey[hostPortKey] ELSE NoClient

WeakGetOptions(w, hostPortKey) ==
  IF WeakHas(w.redisClientOptionsByHostPortKey, hostPortKey)
  THEN Obj(w.redisClientOptionsByHostPortKey[hostPortKey]) ELSE UndefinedValue

getRedisClientOptionsUsed(w, host, port) ==
  Let(getHostPortKey(w, host, port), LAMBDA hostPortKey :
    IF hostPortKey # UndefinedValue THEN WeakGetOptions(w, hostPortKey) ELSE UndefinedValue)

getRedisClient(w, host, port) ==
  Let(getHostPortKey(w, host, port), LAMBDA hostPortKey :
    IF hostPortKey # UndefinedValue THEN WeakGetClient(w, hostPortKey) ELSE NoClient)

----------------------------------------------------------------------------
(* Disconnecting: disconnectClient and the promisified `end` *)

\* execAsync, first half: the underlying function is invoked on the client; its
\* callback, with the outcome fixed by the invocation, fires in a later step.  A
\* callback that reports success to no handler is not kept.
execAsync(w, redisClient, fnName, outcome, cont) ==
  Let(IF fnName = "end" THEN end(w, redisClient, outcome) ELSE w, LAMBDA w1 :
    IF outcome = "ok" /\ cont = NoCont THEN w1
    ELSE [w1 EXCEPT !.pending = @ (+) SetToBag({[fn |-> fnName, client |-> redisClient,
                                                 outcome |-> outcome, cont |-> cont]})])

\* a mutant of disconnectClient: ends the client whether it is closing or not
disconnectClientAlways(w, redisClient, endOutcome, cont) ==
  IF redisClient # NoClient
  THEN [w |-> execAsync([w EXCEPT !.disconnects = @ \cup {redisClient}],
                        redisClient, "end", endOutcome, cont),
        promise |-> Pending]
  ELSE [w |-> w, promise |-> Resolved(Undefined)]

\* a mutant of disconnectClient: does nothing and reports success
disconnectClientNever(w, redisClient, endOutcome, cont) ==
  [w |-> w, promise |-> Resolved(IF redisClient # NoClient THEN "true" ELSE Undefined)]

\* disconnectClient up to its return: the promise is pending when `end` was invoked
disconnectClient(w, redisClient, endOutcome, cont) ==
  IF redisClient # NoClient
  THEN IF ~isClosing(w, redisClient)
       THEN [w |-> execAsync([w EXCEPT !.disconnects = @ \cup {redisClient}],
                             redisClient, "end", endOutcome, cont),
             promise |-> Pending]
       ELSE [w |-> [w EXCEPT !.disconnects = @ \cup {redisClient}],
             promise |-> Resolved("true")]                \* already closing
  ELSE [w |-> w, promise |-> Resolved(Undefined)]         \* no client

\* the promise of execAsync once the callback has fired and the catch handler has run
execAsyncSettled(outcome) ==
  IF outcome = "ok" THEN Resolved("OK") ELSE Rejected("Error")

\* a mutant of disconnectClientThen: no rejection handler
disconnectClientThenOnly(promise) ==
  IF promise.state = "resolved" THEN Resolved("true") ELSE promise

\* disconnectClient's .then(result => true, err => false)
disconnectClientThen(promise) ==
  IF promise.state = "resolved" THEN Resolved("true") ELSE Resolved("false")

----------------------------------------------------------------------------
(* Creating, setting and replacing clients *)

\* a mutant of createNewClient: constructs the client and does not cache it
createNewClientUncached(w, redisClientOptions) ==
  createClient(w, resolveHostAndPortFromOptions(redisClientOptions).options)

\* a mutant of createNewClient: caches the host and port only as the options used
createNewClientHostAndPort(w, redisClientOptions) ==
  Let(resolveHostAndPortFromOptions(redisClientOptions), LAMBDA r :
  Let(createClient(w, r.options), LAMBDA c :
  Let(getOrSetHostPortKey(c.w, r.host, r.port), LAMBDA k :
    [w |-> [k.w EXCEPT
              !.redisClientsByHostPortKey = WeakSet(@, k.hostPortKey, c.redisClient),
              !.redisClientOptionsByHostPortKey =
                 WeakSet(@, k.hostPortKey, <<<<"host", r.host>>, <<"port", r.port>>>>)],
     redisClient |-> c.redisClient])))

\* createNewClient: the listeners it adds are the steps OnError and OnEnd
createNewClient(w, redisClientOptions) ==
  Let(resolveHostAndPortFromOptions(redisClientOptions), LAMBDA r :
  Let(createClient(w, r.options), LAMBDA c :
  Let(getOrSetHostPortKey(c.w, r.host, r.port), LAMBDA k :
    [w |-> [k.w EXCEPT
              !.redisClientsByHostPortKey = WeakSet(@, k.hostPortKey, c.redisClient),
              !.redisClientOptionsByHostPortKey = WeakSet(@, k.hostPortKey, copy(r.options))],
     redisClient |-> c.redisClient])))

\* a mutant of reuseRedisClientIfNotClosing: reuses the cached client even when closing
reuseRedisClientAlways(w, redisClient, hostPortKey, options) ==
  [w |-> w, redisClient |-> redisClient, branch |-> "reuse"]

\* a mutant of reuseRedisClientIfNotClosing: always replaces the cached client
reuseRedisClientNever(w, redisClient, hostPortKey, options) ==
  Let(createNewClient(deleteClientByHostPortKey(w, hostPortKey).w, options), LAMBDA n :
    [w |-> n.w, redisClient |-> n.redisClient, branch |-> "replace closing"])

\* a mutant of reuseRedisClientIfNotClosing: deletes a closing client from the cache and
\* returns it, making no new one
reuseRedisClientDeletesOnly(w, redisClient, hostPortKey, options) ==
  IF ~isClosing(w, redisClient)
  THEN [w |-> w, redisClient |-> redisClient, branch |-> "reuse"]
  ELSE [w |-> deleteClientByHostPortKey(w, hostPortKey).w, redisClient |-> redisClient,
        branch |-> "replace closing"]

reuseRedisClientIfNotClosing(w, redisClient, hostPortKey, options) ==
  IF ~isClosing(w, redisClient)
  THEN [w |-> w, redisClient |-> redisClient, branch |-> "reuse"]
  ELSE Let(createNewClient(deleteClientByHostPortKey(w, hostPortKey).w, options), LAMBDA n :
         [w |-> n.w, redisClient |-> n.redisClient, branch |-> "replace closing"])

\* !redisClientOptions || Object.getOwnPropertyNames(redisClientOptions).length === 0
noOptionsSpecified(redisClientOptions) ==
  redisClientOptions = UndefinedValue \/ OwnPropertyNames(redisClientOptions.props) = {}

\* a mutant of onlyHostAndPortSpecified: never
onlyHostAndPortNever(options) == FALSE

\* a mutant of onlyHostAndPortSpecified: whenever a host and a port are there
onlyHostAndPortAmongOthers(options) == Has(options, "host") /\ Has(options, "port")

\* Object.getOwnPropertyNames(options).length === 2, of the copy with the defaults
onlyHostAndPortSpecified(options) == Cardinality(OwnPropertyNames(options)) = 2

\* a mutant of replaceIncompatible: keeps the old client cached and returns a new one
replaceIncompatibleUncached(w, redisClient, hostPortKey, options, endOutcome) ==
  LET p == disconnectClient(w, redisClient, endOutcome, NoCont)
  IN Let(createNewClientUncached(p.w, options), LAMBDA n :
       [w |-> n.w, redisClient |-> n.redisClient, branch |-> "replace incompatible"])

\* a mutant of replaceIncompatible: keeps and returns the old client
replaceIncompatibleNever(w, redisClient, hostPortKey, options, endOutcome) ==
  [w |-> w, redisClient |-> redisClient, branch |-> "replace incompatible"]

\* a mutant of replaceIncompatible: makes the new client only when the old one's `end`
\* works, and gives the old client back otherwise
replaceIncompatibleIfDisconnected(w, redisClient, hostPortKey, options, endOutcome) ==
  LET d == deleteClientByHostPortKey(w, hostPortKey)
      p == disconnectClient(d.w, redisClient, endOutcome, NoCont)
  IN IF endOutcome = "ok"
     THEN Let(createNewClient(p.w, options), LAMBDA n :
            [w |-> n.w, redisClient |-> n.redisClient, branch |-> "replace incompatible"])
     ELSE [w |-> p.w, redisClient |-> redisClient, branch |-> "replace incompatible"]

\* setRedisClient's last part: dump the old incompatible client in favour of a new one
replaceIncompatible(w, redisClient, hostPortKey, options, endOutcome) ==
  LET d == deleteClientByHostPortKey(w, hostPortKey)
      p == disconnectClient(d.w, redisClient, endOutcome, NoCont)
  IN Let(createNewClient(p.w, options), LAMBDA n :
       [w |-> n.w, redisClient |-> n.redisClient, branch |-> "replace incompatible"])

\* setRedisClient; with the client it returns come the locals it decided on
setRedisClient(w, redisClientOptions, endOutcome) ==
  Let(resolveHostAndPortFromOptions(IF redisClientOptions # UndefinedValue
                                    THEN copy(redisClientOptions.props) ELSE <<>>), LAMBDA r :
  Let(getOrSetHostPortKey(w, r.host, r.port), LAMBDA k :
  Let(WeakGetClient(k.w, k.hostPortKey), LAMBDA redisClient :
  Let(WeakGetOptions(k.w, k.hostPortKey), LAMBDA optionsUsed :
  Let(IF redisClient = NoClient
      THEN Let(createNewClient(k.w, r.options), LAMBDA n :
             [w |-> n.w, redisClient |-> n.redisClient, branch |-> "create"])
      ELSE IF noOptionsSpecified(redisClientOptions)
      THEN reuseRedisClientIfNotClosing(k.w, redisClient, k.hostPortKey, r.options)
      ELSE IF onlyHostAndPortSpecified(r.options)
      THEN reuseRedisClientIfNotClosing(k.w, redisClient, k.hostPortKey, r.options)
      ELSE IF optionsUsed # UndefinedValue /\ deepEqual(optionsUsed.props, r.options)
      THEN reuseRedisClientIfNotClosing(k.w, redisClient, k.hostPortKey, r.options)
      ELSE replaceIncompatible(k.w, redisClient, k.hostPortKey, r.options, endOutcome),
      LAMBDA done :
    [w |-> done.w, redisClient |-> done.redisClient, branch |-> done.branch,
     host |-> r.host, port |-> r.port, options |-> r.options,
     cached |-> redisClient, optionsUsed |-> optionsUsed])))))

\* a mutant of replaceRedisClientIfClosing: returns the client it was given
replaceRedisClientNever(w, redisClient) == [w |-> w, redisClient |-> redisClient]

\* a mutant of replaceRedisClientIfClosing: the new client gets the host and port only
replaceRedisClientHostAndPort(w, redisClient) ==
  IF isClosing(w, redisClient)
  THEN Let(resolveHostAndPort(w, redisClient), LAMBDA hp :
         createNewClient(
           deleteClientByHostPortKey(w, getHostPortKey(w, hp.host, hp.port)).w,
           <<<<"host", hp.host>>, <<"port", hp.port>>>>))
  ELSE [w |-> w, redisClient |-> redisClient]

replaceRedisClientIfClosing(w, redisClient) ==
  IF isClosing(w, redisClient)
  THEN Let(resolveHostAndPort(w, redisClient), LAMBDA hp :
       Let(getHostPortKey(w, hp.host, hp.port), LAMBDA hostPortKey :
       Let(WeakGetOptions(w, hostPortKey), LAMBDA optionsUsed :
         createNewClient(deleteClientByHostPortKey(w, hostPortKey).w,
                         IF hostPortKey # UndefinedValue /\ optionsUsed # UndefinedValue
                         THEN optionsUsed.props ELSE getOptions(w, redisClient)))))
  ELSE [w |-> w, redisClient |-> redisClient]

\* getRedisClientAndReplaceIfClosing; with the client it returns comes the one it found
getRedisClientAndReplaceIfClosing(w, host, port) ==
  Let(WeakGetClient(w, getHostPortKey(w, host, port)), LAMBDA redisClient :
  Let(IF redisClient # NoClient /\ isClosing(w, redisClient)
      THEN replaceRedisClientIfClosing(w, redisClient)
      ELSE [w |-> w, redisClient |-> redisClient], LAMBDA done :
    [w |-> done.w, redisClient |-> done.redisClient, cached |-> redisClient]))

----------------------------------------------------------------------------
(* Deleting and clearing *)

DeleteCont == [kind |-> "deleteAndDisconnectRedisClient"]

\* a mutant of deleteAndDisconnectCatch: no handler
deleteAndDisconnectNoCatch(promise) == promise

\* .catch(err => (context || console).error(err)) on the disconnect promise
deleteAndDisconnectCatch(promise) ==
  IF promise.state = "rejected" THEN Resolved(Undefined) ELSE promise

\* a mutant of deleteAndDisconnectRedisClient: disconnects and leaves the cache alone
disconnectRedisClientOnly(w, host, port, endOutcome) ==
  Let(getRedisClient(w, host, port), LAMBDA redisClient :
  Let(disconnectClient(w, redisClient, endOutcome, DeleteCont), LAMBDA p :
    [w |-> p.w, host |-> host, port |-> port, deleted |-> redisClient # NoClient,
     redisClient |-> redisClient,
     disconnectPromise |-> IF redisClient # NoClient THEN deleteAndDisconnectCatch(p.promise)
                           ELSE UndefinedValue]))

\* deleteAndDisconnectRedisClient; with what it returns comes the client it found
deleteAndDisconnectRedisClient(w, host, port, endOutcome) ==
  Let(getHostPortKey(w, host, port), LAMBDA hostPortKey :
  Let(IF hostPortKey # UndefinedValue
      THEN WeakGetClient(w, hostPortKey) ELSE NoClient, LAMBDA redisClient :
  Let(deleteClientByHostPortKey(w, hostPortKey), LAMBDA d :
  Let(disconnectClient(d.w, redisClient, endOutcome, DeleteCont), LAMBDA p :
    [w |-> p.w, host |-> host, port |-> port, deleted |-> d.deleted,
     redisClient |-> redisClient,
     disconnectPromise |-> IF redisClient # NoClient THEN deleteAndDisconnectCatch(p.promise)
                           ELSE UndefinedValue]))))

ClearCont(call, slot) == [kind |-> "clearCache", call |-> call, slot |-> slot]

\* a mutant of clearCacheThen: no rejection handler
clearCacheThenOnly(promise, entry) ==
  IF promise.state = "resolved"
  THEN [entry EXCEPT !.state = "resolved", !.disconnected = promise.value]
  ELSE [entry EXCEPT !.state = promise.state]

\* the two handlers clearCache puts on a client's disconnect promise
clearCacheThen(promise, entry) ==
  IF promise.state = "pending" THEN entry
  ELSE [entry EXCEPT !.state = "resolved",
                     !.disconnected =
                        IF promise.state = "resolved" THEN promise.value ELSE "false"]

\* what clearCache's map returns for one key: a promise of a result, or a result
clearCacheEntry(hostPortKey, redisClient, deleted, promise) ==
  IF redisClient # NoClient
  THEN clearCacheThen(promise,
         [host |-> hostPortKey.host, port |-> hostPortKey.port, deleted |-> deleted,
          disconnected |-> Undefined, state |-> "pending", client |-> redisClient])
  ELSE [host |-> hostPortKey.host, port |-> hostPortKey.port, deleted |-> deleted,
        disconnected |-> Undefined, state |-> "resolved", client |-> NoClient]

\* clearCache's map over the listed keys, from the i-th key on
RECURSIVE clearCacheMap(_, _, _, _, _)
clearCacheMap(w, hostPortKeys, i, call, endOutcomes) ==
  IF i > Len(hostPortKeys) THEN [w |-> w, disconnectPromises |-> <<>>]
  ELSE Let(WeakGetClient(w, hostPortKeys[i]), LAMBDA redisClient :
       Let(deleteClientByHostPortKey(w, hostPortKeys[i]), LAMBDA d :
       Let(disconnectClient(d.w, redisClient,
                            IF redisClient # NoClient THEN endOutcomes[redisClient] ELSE "ok",
                            ClearCont(call, i)), LAMBDA p :
       Let(clearCacheMap(p.w, hostPortKeys, i + 1, call, endOutcomes), LAMBDA rest :
         [w |-> rest.w,
          disconnectPromises |->
            <<clearCacheEntry(hostPortKeys[i], redisClient, d.deleted, p.promise)>>
              \o rest.disconnectPromises]))))

\* a mutant of clearCache: clears the first listed key only
clearCacheFirst(w, call, endOutcomes) ==
  Let(clearCacheMap(w, SubSeq(listHostPortKeys(w), 1, IF listHostPortKeys(w) = <<>> THEN 0 ELSE 1),
                    1, call, endOutcomes), LAMBDA m :
    [w |-> [m.w EXCEPT !.clearing =
               [c \in DOMAIN @ \cup {call} |->
                  IF c = call THEN m.disconnectPromises ELSE @[c]]],
     disconnectPromises |-> m.disconnectPromises])

\* clearCache up to its return; the call is kept in `clearing` until Promise.all settles
clearCache(w, call, endOutcomes) ==
  Let(clearCacheMap(w, listHostPortKeys(w), 1, call, endOutcomes), LAMBDA m :
    [w |-> [m.w EXCEPT !.clearing =
               [c \in DOMAIN @ \cup {call} |->
                  IF c = call THEN m.disconnectPromises ELSE @[c]]],
     disconnectPromises |-> m.disconnectPromises])

\* Promise.all(disconnectPromises)
PromiseAll(promises) ==
  IF \E i \in 1..Len(promises) : promises[i].state = "rejected" THEN Rejected("Error")
  ELSE IF \A i \in 1..Len(promises) : promises[i].state = "resolved"
  THEN Resolved([i \in 1..Len(promises) |->
                   [host |-> promises[i].host, port |-> promises[i].port,
                    deleted |-> promises[i].deleted,
                    disconnected |-> promises[i].disconnected]])
  ELSE Pending

\* the promise a disconnect hands to its caller, once `end` has called back
DisconnectSettled(task) ==
  IF task.cont.kind = "deleteAndDisconnectRedisClient"
  THEN deleteAndDisconnectCatch(disconnectClientThen(execAsyncSettled(task.outcome)))
  ELSE disconnectClientThen(execAsyncSettled(task.outcome))

\* execAsync, second half: the callback of `end` has fired.  On an error the catch
\* handler disconnects the client once more and rethrows; then the handlers on the
\* disconnect's promise run.
execAsyncCallback(w, task, endOutcome) ==
  Let([w EXCEPT !.pending = @ (-) SetToBag({task})], LAMBDA w0 :
  Let(IF task.outcome = "ok" THEN w0
      ELSE disconnectClient(w0, task.client, endOutcome, NoCont).w, LAMBDA w1 :
    IF task.cont.kind = "clearCache"
    THEN [w1 EXCEPT !.clearing[task.cont.call][task.cont.slot] =
                       clearCacheThen(disconnectClientThen(execAsyncSettled(task.outcome)), @)]
    ELSE w1))

----------------------------------------------------------------------------
(* The promisified client functions (execAsync), isRedisClientUsable and     *)
(* replaceRedisClientIfUnusable                                              *)

\* what the callback of a function that asks the server reports: a reply, an error, or
\* an error that redis.isMovedError recognises
FnOutcomes == {"ok", "err", "moved"}

\* the continuation of a caller that keeps the promise
CallerCont == [kind |-> "caller"]

\* the continuation isRedisClientUsable puts on pingAsync
UsableCont == [kind |-> "isRedisClientUsable"]

\* the continuation replaceRedisClientIfUnusable puts on isRedisClientUsable
ReplaceCont(redisClient, redisClientOptions) ==
  [kind |-> "replaceRedisClientIfUnusable", redisClient |-> redisClient,
   redisClientOptions |-> redisClientOptions]

\* the reply an invocation calls back with
Reply(task) == [reply |-> task.fn, client |-> task.client, attempt |-> task.attempt]

\* the error an invocation calls back with
Error(task) == [error |-> task.outcome, client |-> task.client, attempt |-> task.attempt]

\* fnAsync.apply(redisClient, arguments): the function is invoked on the client, and its
\* callback, with the outcome fixed by the invocation, fires in a later step
fnAsync(w, redisClient, origin, fnName, outcome, cont, attempt) ==
  [w EXCEPT !.pending = @ (+) SetToBag({[fn |-> fnName, client |-> redisClient,
                                         origin |-> origin, outcome |-> outcome,
                                         cont |-> cont, attempt |-> attempt]}),
            !.invoked = @ \cup {<<fnName, redisClient>>}]

\* the name of a function of the client prototype, and `${fnName}Async`
FnName(fnName) == [name |-> fnName, suffix |-> ""]

asyncFnName(fnName) == [name |-> fnName, suffix |-> "Async"]

\* a callback-style function of the redis client, or one a caller adds to the prototype
ClientFunction(fnName) == [kind |-> "function", name |-> fnName]

\* promisifyClientFunction's dummyFn: calls back with the error `Missing function`
dummyFn(fnName) == [kind |-> "dummyFn", name |-> fnName]

\* redis.getClientFunction, redis.setClientFunction and redis.deleteClientFunction
getClientFunction(w, name) ==
  IF name \in DOMAIN w.clientFunctions THEN w.clientFunctions[name] ELSE UndefinedValue

setClientFunction(w, name, fn) ==
  [w EXCEPT !.clientFunctions =
     [n \in DOMAIN @ \cup {name} |-> IF n = name THEN fn ELSE @[n]]]

deleteClientFunction(w, name) ==
  [w EXCEPT !.clientFunctions = [n \in DOMAIN @ \ {name} |-> @[n]]]

\* createAsyncFunction: the execAsync it returns keeps the function it has wrapped, which
\* is dummyFn, installed under the name, when the prototype has no function of the name
createAsyncFunction(w, fnName) ==
  Let(getClientFunction(w, FnName(fnName)), LAMBDA fn :
    IF fn = UndefinedValue
    THEN [w |-> setClientFunction(w, FnName(fnName), dummyFn(fnName)),
          execAsync |-> [kind |-> "execAsync", name |-> fnName, fn |-> dummyFn(fnName)]]
    ELSE [w |-> w,
          execAsync |-> [kind |-> "execAsync", name |-> fnName, fn |-> fn]])

\* a mutant of promisifyClientFunction: installs a new function whenever it is called
promisifyClientFunctionAgain(w, fnName) ==
  Let(createAsyncFunction(w, fnName), LAMBDA c :
    setClientFunction(c.w, asyncFnName(fnName), c.execAsync))

promisifyClientFunction(w, fnName) ==
  IF getClientFunction(w, asyncFnName(fnName)) = UndefinedValue
  THEN Let(createAsyncFunction(w, fnName), LAMBDA c :
         setClientFunction(c.w, asyncFnName(fnName), c.execAsync))
  ELSE w

\* the functions configureRedisClientCache has promisified, of those the model invokes
Promisified ==
  promisifyClientFunction(
    promisifyClientFunction(
      promisifyClientFunction(
        [clientFunctions |-> [name \in {FnName("get"), FnName("end"), FnName("ping")} |->
                                ClientFunction(name.name)]],
        "get"), "end"), "ping").clientFunctions

\* the continuation of a caller of an installed function, which has wrapped fn
WrappedCont(fn) == [kind |-> "caller", fn |-> fn]

\* redisClient[`${fnName}Async`](...): a TypeError when no such function is installed;
\* else execAsync invokes the function it has wrapped, and dummyFn calls back with an
\* error that is no MOVED error
callAsync(w, redisClient, fnName, outcome) ==
  Let(getClientFunction(w, asyncFnName(fnName)), LAMBDA installed :
    IF installed = UndefinedValue
    THEN [w |-> w, threw |-> "TypeError", promise |-> UndefinedValue]
    ELSE [w |-> fnAsync(w, redisClient, redisClient, fnName,
                        IF installed.fn.kind = "dummyFn" THEN "err" ELSE outcome,
                        WrappedCont(installed.fn), 1),
          threw |-> Undefined, promise |-> Pending])

\* redis.resolveHostAndPortFromMovedError(err): a MOVED reply names another server
MovedTargets(w, redisClient) ==
  Endpoints \ {<<resolveHostAndPort(w, redisClient).host,
                 resolveHostAndPort(w, redisClient).port>>}

\* a mutant of execAsyncMoved: tries once more with the client that was moved
execAsyncMovedSameClient(w, task, target, retryOutcome, endOutcome) ==
  Let(resolveHostAndPort(w, task.client), LAMBDA old :
  Let(getRedisClientOptionsUsed(w, old.host, old.port), LAMBDA used :
  Let(Put(Put(copy(IF used # UndefinedValue THEN used.props
                   ELSE getOptions(w, task.client)),
              "host", target[1]), "port", target[2]), LAMBDA newOptions :
  Let(setRedisClient(w, Obj(newOptions), endOutcome), LAMBDA s :
    [w |-> fnAsync(s.w, task.client, task.origin, task.fn, retryOutcome, task.cont, 2),
     newRedisClient |-> s.redisClient, newOptions |-> newOptions]))))

\* a mutant of execAsyncMoved: makes the new client with the old host and port
execAsyncMovedOldOptions(w, task, target, retryOutcome, endOutcome) ==
  Let(resolveHostAndPort(w, task.client), LAMBDA old :
  Let(getRedisClientOptionsUsed(w, old.host, old.port), LAMBDA used :
  Let(copy(IF used # UndefinedValue THEN used.props
           ELSE getOptions(w, task.client)), LAMBDA newOptions :
  Let(setRedisClient(w, Obj(newOptions), endOutcome), LAMBDA s :
    [w |-> fnAsync(s.w, s.redisClient, task.origin, task.fn, retryOutcome, task.cont, 2),
     newRedisClient |-> s.redisClient, newOptions |-> newOptions]))))

\* a mutant of execAsyncMoved: sets the client with the new host and port only, and so
\* takes whatever open client is cached for them
execAsyncMovedHostAndPort(w, task, target, retryOutcome, endOutcome) ==
  Let(<< <<"host", target[1]>>, <<"port", target[2]>> >>, LAMBDA newOptions :
  Let(setRedisClient(w, Obj(newOptions), endOutcome), LAMBDA s :
    [w |-> fnAsync(s.w, s.redisClient, task.origin, task.fn, retryOutcome, task.cont, 2),
     newRedisClient |-> s.redisClient, newOptions |-> newOptions]))

\* execAsync's catch handler on a MOVED error: a client is set for the new host and port
\* with the old client's other options, and the function is tried once more with it
execAsyncMoved(w, task, target, retryOutcome, endOutcome) ==
  Let(resolveHostAndPort(w, task.client), LAMBDA old :
  Let(getRedisClientOptionsUsed(w, old.host, old.port), LAMBDA used :
  Let(Put(Put(copy(IF used # UndefinedValue THEN used.props
                   ELSE getOptions(w, task.client)),
              "host", target[1]), "port", target[2]), LAMBDA newOptions :
  Let(setRedisClient(w, Obj(newOptions), endOutcome), LAMBDA s :
    [w |-> fnAsync(s.w, s.redisClient, task.origin, task.fn, retryOutcome, task.cont, 2),
     newRedisClient |-> s.redisClient, newOptions |-> newOptions]))))

\* a mutant of execAsyncCatch: follows a MOVED error of the second try as well
execAsyncCatchFollowsEveryMove(w, task, target, retryOutcome, endOutcome) ==
  Let([w EXCEPT !.pending = @ (-) SetToBag({task})], LAMBDA w0 :
    IF task.outcome = "ok"
    THEN [w |-> w0, promise |-> Resolved(Reply(task)), newRedisClient |-> NoClient]
    ELSE IF task.outcome = "moved"
    THEN Let(execAsyncMoved(w0, task, target, retryOutcome, endOutcome), LAMBDA m :
           [w |-> m.w, promise |-> Pending, newRedisClient |-> m.newRedisClient])
    ELSE [w |-> disconnectClient(w0, task.client, endOutcome, NoCont).w,
          promise |-> Rejected(Error(task)), newRedisClient |-> NoClient])

\* a mutant of execAsyncCatch: an error disconnects the client first invoked on
execAsyncCatchDisconnectsOrigin(w, task, target, retryOutcome, endOutcome) ==
  Let([w EXCEPT !.pending = @ (-) SetToBag({task})], LAMBDA w0 :
    IF task.outcome = "ok"
    THEN [w |-> w0, promise |-> Resolved(Reply(task)), newRedisClient |-> NoClient]
    ELSE IF task.attempt = 1 /\ task.outcome = "moved"
    THEN Let(execAsyncMoved(w0, task, target, retryOutcome, endOutcome), LAMBDA m :
           [w |-> m.w, promise |-> Pending, newRedisClient |-> m.newRedisClient])
    ELSE [w |-> disconnectClient(w0, task.origin, endOutcome, NoCont).w,
          promise |-> Rejected(Error(task)), newRedisClient |-> NoClient])

\* a mutant of execAsyncCatch: an error is rethrown and the client left connected
execAsyncCatchRethrowsOnly(w, task, target, retryOutcome, endOutcome) ==
  Let([w EXCEPT !.pending = @ (-) SetToBag({task})], LAMBDA w0 :
    IF task.outcome = "ok"
    THEN [w |-> w0, promise |-> Resolved(Reply(task)), newRedisClient |-> NoClient]
    ELSE IF task.attempt = 1 /\ task.outcome = "moved"
    THEN Let(execAsyncMoved(w0, task, target, retryOutcome, endOutcome), LAMBDA m :
           [w |-> m.w, promise |-> Pending, newRedisClient |-> m.newRedisClient])
    ELSE [w |-> w0, promise |-> Rejected(Error(task)), newRedisClient |-> NoClient])

\* execAsync once the callback has fired: a reply resolves the promise; a MOVED error of
\* the first try is followed; any other error, and any error of the second try,
\* disconnects the client the try was made with and rejects with that error
execAsyncCatch(w, task, target, retryOutcome, endOutcome) ==
  Let([w EXCEPT !.pending = @ (-) SetToBag({task})], LAMBDA w0 :
    IF task.outcome = "ok"
    THEN [w |-> w0, promise |-> Resolved(Reply(task)), newRedisClient |-> NoClient]
    ELSE IF task.attempt = 1 /\ task.outcome = "moved"
    THEN Let(execAsyncMoved(w0, task, target, retryOutcome, endOutcome), LAMBDA m :
           [w |-> m.w, promise |-> Pending, newRedisClient |-> m.newRedisClient])
    ELSE [w |-> disconnectClient(w0, task.client, endOutcome, NoCont).w,
          promise |-> Rejected(Error(task)), newRedisClient |-> NoClient])

\* a mutant of isRedisClientUsable: pings a closing client too
isRedisClientUsablePingsAlways(w, redisClient, pingOutcome, cont) ==
  [w |-> fnAsync(w, redisClient, redisClient, "ping", pingOutcome, cont, 1),
   promise |-> Pending]

\* isRedisClientUsable up to its return: the promise is pending when ping was invoked
isRedisClientUsable(w, redisClient, pingOutcome, cont) ==
  IF ~isClosing(w, redisClient)
  THEN [w |-> fnAsync(w, redisClient, redisClient, "ping", pingOutcome, cont, 1),
        promise |-> Pending]
  ELSE [w |-> w, promise |-> Resolved("false")]

\* a mutant of isRedisClientUsableThen: no rejection handler
isRedisClientUsableThenOnly(promise) ==
  IF promise.state = "resolved" THEN Resolved("true") ELSE promise

\* isRedisClientUsable's .then(pong => true, err => false)
isRedisClientUsableThen(promise) ==
  IF promise.state = "resolved" THEN Resolved("true") ELSE Resolved("false")

\* replaceRedisClientIfUnusable up to its return; when the client is closing the
\* usability is known, and the handler put on it runs in a later step
replaceRedisClientIfUnusable(w, redisClient, redisClientOptions, pingOutcome) ==
  Let(isRedisClientUsable(w, redisClient, pingOutcome,
                          ReplaceCont(redisClient, redisClientOptions)), LAMBDA u :
    IF u.promise.state = "pending" THEN u.w
    ELSE [u.w EXCEPT !.pending =
            @ (+) SetToBag({[fn |-> "then", client |-> redisClient, origin |-> redisClient,
                             outcome |-> "closing", attempt |-> 0,
                             cont |-> ReplaceCont(redisClient, redisClientOptions)]})])

\* setRedisClientAndReplaceIfUnusable up to its return: setRedisClient, and then
\* replaceRedisClientIfUnusable of the client it returned, with the same options
setRedisClientAndReplaceIfUnusable(w, redisClientOptions, endOutcome, pingOutcome) ==
  Let(setRedisClient(w, redisClientOptions, endOutcome), LAMBDA s :
    [w |-> replaceRedisClientIfUnusable(s.w, s.redisClient, redisClientOptions,
                                        pingOutcome),
     redisClient |-> s.redisClient, host |-> s.host, port |-> s.port])

\* a mutant of replaceUnusable: returns the client it was given
replaceUnusableNever(w, redisClient, redisClientOptions, usable, endOutcome) ==
  [w |-> w, redisClient |-> redisClient, options |-> UndefinedValue]

\* a mutant of replaceUnusable: replaces a usable client as well
replaceUnusableAlways(w, redisClient, redisClientOptions, usable, endOutcome) ==
  Let(resolveHostAndPort(w, redisClient), LAMBDA hp :
  Let(getHostPortKey(w, hp.host, hp.port), LAMBDA hostPortKey :
  Let(IF redisClientOptions # UndefinedValue THEN redisClientOptions
      ELSE IF WeakGetOptions(w, hostPortKey) # UndefinedValue
      THEN WeakGetOptions(w, hostPortKey)
      ELSE Obj(getOptions(w, redisClient)), LAMBDA options :
  Let(deleteClientByHostPortKey(w, hostPortKey), LAMBDA d :
  Let(disconnectClient(d.w, redisClient, endOutcome, NoCont), LAMBDA p :
  Let(createNewClient(p.w, options.props), LAMBDA n :
    [w |-> n.w, redisClient |-> n.redisClient, options |-> options]))))))

\* a mutant of replaceUnusable: the options cached come before the options given
replaceUnusableOptionsUsedFirst(w, redisClient, redisClientOptions, usable, endOutcome) ==
  IF usable THEN [w |-> w, redisClient |-> redisClient, options |-> UndefinedValue]
  ELSE
  Let(resolveHostAndPort(w, redisClient), LAMBDA hp :
  Let(getHostPortKey(w, hp.host, hp.port), LAMBDA hostPortKey :
  Let(IF WeakGetOptions(w, hostPortKey) # UndefinedValue
      THEN WeakGetOptions(w, hostPortKey)
      ELSE IF redisClientOptions # UndefinedValue THEN redisClientOptions
      ELSE Obj(getOptions(w, redisClient)), LAMBDA options :
  Let(deleteClientByHostPortKey(w, hostPortKey), LAMBDA d :
  Let(disconnectClient(d.w, redisClient, endOutcome, NoCont), LAMBDA p :
  Let(createNewClient(p.w, options.props), LAMBDA n :
    [w |-> n.w, redisClient |-> n.redisClient, options |-> options]))))))

\* a mutant of replaceUnusable: deletes and disconnects an unusable client, and leaves the
\* making of the new one to a later call
replaceUnusableEvictsOnly(w, redisClient, redisClientOptions, usable, endOutcome) ==
  IF usable THEN [w |-> w, redisClient |-> redisClient, options |-> UndefinedValue]
  ELSE
  Let(resolveHostAndPort(w, redisClient), LAMBDA hp :
  Let(deleteClientByHostPortKey(w, getHostPortKey(w, hp.host, hp.port)), LAMBDA d :
  Let(disconnectClient(d.w, redisClient, endOutcome, NoCont), LAMBDA p :
    [w |-> p.w, redisClient |-> redisClient, options |-> UndefinedValue])))

\* replaceRedisClientIfUnusable's .then(usable => ...): a usable client is returned; an
\* unusable one is deleted from the cache and disconnected, and a new client is made with
\* the options given, or else the options cached for its host and port, or else its own
replaceUnusable(w, redisClient, redisClientOptions, usable, endOutcome) ==
  IF usable THEN [w |-> w, redisClient |-> redisClient, options |-> UndefinedValue]
  ELSE
  Let(resolveHostAndPort(w, redisClient), LAMBDA hp :
  Let(getHostPortKey(w, hp.host, hp.port), LAMBDA hostPortKey :
  Let(IF redisClientOptions # UndefinedValue THEN redisClientOptions
      ELSE IF WeakGetOptions(w, hostPortKey) # UndefinedValue
      THEN WeakGetOptions(w, hostPortKey)
      ELSE Obj(getOptions(w, redisClient)), LAMBDA options :
  Let(deleteClientByHostPortKey(w, hostPortKey), LAMBDA d :
  Let(disconnectClient(d.w, redisClient, endOutcome, NoCont), LAMBDA p :
  Let(createNewClient(p.w, options.props), LAMBDA n :
    [w |-> n.w, redisClient |-> n.redisClient, options |-> options]))))))

\* the callback of an invocation has fired: execAsync's catch handler runs, and when the
\* promise of execAsync settles, so do the handlers put on it.  `result` is the promise
\* the caller holds.
fnAsyncCallback(w, task, target, retryOutcome, endOutcome, endOutcome2) ==
  IF task.fn = "then"
  THEN Let(replaceUnusable([w EXCEPT !.pending = @ (-) SetToBag({task})],
                           task.cont.redisClient, task.cont.redisClientOptions,
                           FALSE, endOutcome2), LAMBDA n :
         [w |-> n.w, promise |-> Resolved("false"), newRedisClient |-> NoClient,
          result |-> Resolved(n.redisClient), options |-> n.options])
  ELSE
  Let(execAsyncCatch(w, task, target, retryOutcome, endOutcome), LAMBDA e :
    IF e.promise.state = "pending"
    THEN [w |-> e.w, promise |-> Pending, newRedisClient |-> e.newRedisClient,
          result |-> Pending, options |-> UndefinedValue]
    ELSE IF task.cont.kind = "caller"
    THEN [w |-> e.w, promise |-> e.promise, newRedisClient |-> NoClient,
          result |-> e.promise, options |-> UndefinedValue]
    ELSE IF task.cont.kind = "isRedisClientUsable"
    THEN [w |-> e.w, promise |-> e.promise, newRedisClient |-> NoClient,
          result |-> isRedisClientUsableThen(e.promise), options |-> UndefinedValue]
    ELSE Let(isRedisClientUsableThen(e.promise), LAMBDA usable :
         Let(replaceUnusable(e.w, task.cont.redisClient, task.cont.redisClientOptions,
                             usable.state = "resolved" /\ usable.value = "true",
                             endOutcome2), LAMBDA n :
           [w |-> n.w, promise |-> e.promise, newRedisClient |-> NoClient,
            result |-> Resolved(n.redisClient), options |-> n.options])))

----------------------------------------------------------------------------
(* What callers pass in *)

\* the options objects callers write: host and port of a test endpoint or left out, with
\* or without string_numbers, and string_numbers: true written first
OptionsObjects ==
  { <<>>,
    << <<"host", defaultHost>>, <<"port", defaultPort>> >>,
    << <<"host", defaultHost>>, <<"port", defaultPort>>, <<"string_numbers", "true">> >>,
    << <<"string_numbers", "true">>, <<"port", defaultPort>>, <<"host", defaultHost>> >>,
    << <<"string_numbers", "true">> >>,
    << <<"host", otherHost>>, <<"port", otherPort>> >>,
    << <<"host", otherHost>>, <<"port", otherPort>>, <<"string_numbers", "false">> >>,
    << <<"host", otherHost>>, <<"port", otherPort>>, <<"string_numbers", Undefined>> >> }

RedisClientOptions == {UndefinedValue} \cup { Obj(o) : o \in OptionsObjects }

\* the options of callers that are after the disconnects rather than the options
FewRedisClientOptions ==
  { UndefinedValue,
    Obj(<< <<"host", otherHost>>, <<"port", otherPort>> >>),
    Obj(<< <<"host", defaultHost>>, <<"port", defaultPort>>, <<"string_numbers", "true">> >>) }

ClientIds == 1..Len(clients)

\* options objects the caller keeps after the call, and may write to
HeldOptions ==
  { Obj(Append(o, <<Identity, "held">>)) :
      o \in { <<>>,
               << <<"host", defaultHost>>, <<"port", defaultPort>> >>,
               << <<"host", defaultHost>>, <<"port", defaultPort>>,
                  <<"string_numbers", "true">> >>,
               << <<"host", otherHost>>, <<"port", otherPort>>,
                  <<"string_numbers", "false">> >> } }

\* what the caller writes to an options object it holds
Writes ==
  { <<"string_numbers", "true">>, <<"string_numbers", "false">>,
    <<"host", otherHost>>, <<"port", otherPort>> }

----------------------------------------------------------------------------
(* The steps *)

Install(w) ==
  /\ redisClientsByHostPortKey' = w.redisClientsByHostPortKey
  /\ redisClientOptionsByHostPortKey' = w.redisClientOptionsByHostPortKey
  /\ hostPortKeysByHostPort' = w.hostPortKeysByHostPort
  /\ hostPortKeysMinted' = w.hostPortKeysMinted
  /\ clients' = w.clients
  /\ pending' = w.pending
  /\ clearing' = w.clearing
  /\ endsFailed' = w.endsFailed
  /\ clientFunctions' = w.clientFunctions

WithinBounds(w) ==
  /\ Len(w.clients) <= MaxClients
  /\ BagCardinality(w.pending) <= MaxPending
  /\ Len(w.endsFailed) <= MaxEndsFailed

\* what was cached before a step, as the step found it
Found(w0, redisClient, optionsUsed) ==
  [redisClient |-> redisClient, optionsUsed |-> optionsUsed,
   closing |-> redisClient # NoClient /\ isClosing(w0, redisClient)]

\* what a step did besides returning
Did(w0, w) ==
  [created |-> Len(w.clients) - Len(w0.clients),
   disconnects |-> w.disconnects, ended |-> w.ended, invoked |-> w.invoked]

Init ==
  /\ redisClientsByHostPortKey = EmptyWeakMap
  /\ redisClientOptionsByHostPortKey = EmptyWeakMap
  /\ hostPortKeysByHostPort = <<>>
  /\ hostPortKeysMinted = 0
  /\ clients = <<>>
  /\ pending = EmptyBag
  /\ clearing = [c \in {} |-> <<>>]
  /\ endsFailed = <<>>
  /\ clientFunctions = Promisified
  /\ last = [op |-> "none"]

SetRedisClient(redisClientOptions, endOutcome) ==
  \E r \in {setRedisClient(World, redisClientOptions, endOutcome)} :
     /\ WithinBounds(r.w)
     /\ Install(r.w)
     /\ last' = [op |-> "setRedisClient", redisClientOptions |-> redisClientOptions,
                 host |-> r.host, port |-> r.port, options |-> r.options,
                 redisClient |-> r.redisClient, branch |-> r.branch,
                 found |-> Found(World, r.cached, r.optionsUsed),
                 did |-> Did(World, r.w)]

GetRedisClientAndReplaceIfClosing(host, port) ==
  \E r \in {getRedisClientAndReplaceIfClosing(World, host, port)} :
     /\ WithinBounds(r.w)
     /\ Install(r.w)
     /\ last' = [op |-> "getRedisClientAndReplaceIfClosing", host |-> host, port |-> port,
                 redisClient |-> r.redisClient,
                 found |-> Found(World, r.cached, getRedisClientOptionsUsed(World, host, port)),
                 did |-> Did(World, r.w)]

DeleteAndDisconnectRedisClient(host, port, endOutcome) ==
  \E r \in {deleteAndDisconnectRedisClient(World, host, port, endOutcome)} :
     /\ WithinBounds(r.w)
     /\ Install(r.w)
     /\ last' = [op |-> "deleteAndDisconnectRedisClient", host |-> host, port |-> port,
                 deleted |-> r.deleted, disconnectPromise |-> r.disconnectPromise,
                 found |-> Found(World, r.redisClient,
                                 getRedisClientOptionsUsed(World, host, port)),
                 did |-> Did(World, r.w)]

ClearCache(endOutcomes) ==
  /\ Cardinality(DOMAIN clearing) < MaxClearing
  /\ \E call \in {CHOOSE c \in 1..MaxClearing : c \notin DOMAIN clearing} :
     \E r \in {clearCache(World, call, endOutcomes)} :
        /\ WithinBounds(r.w)
        /\ Install(r.w)
        /\ last' = [op |-> "clearCache", call |-> call,
                    disconnectPromises |-> r.disconnectPromises,
                    found |-> [hp \in Endpoints |->
                                 Found(World, getRedisClient(World, hp[1], hp[2]),
                                       getRedisClientOptionsUsed(World, hp[1], hp[2]))],
                    did |-> Did(World, r.w)]

\* a caller that holds a client disconnects it
DisconnectClient(redisClient, endOutcome) ==
  \E r \in {disconnectClient(World, redisClient, endOutcome, NoCont)} :
     /\ WithinBounds(r.w)
     /\ Install(r.w)
     /\ last' = [op |-> "disconnectClient", redisClient |-> redisClient,
                 promise |-> r.promise, did |-> Did(World, r.w)]

\* the client emits `error`: the onError listener of createNewClient
OnError(redisClient, endOutcome) ==
  \E r \in {disconnectClient(World, redisClient, endOutcome, NoCont)} :
     /\ WithinBounds(r.w)
     /\ Install(r.w)
     /\ last' = [op |-> "onError", redisClient |-> redisClient,
                 cached |-> redisClient =
                   getRedisClient(World, resolveHostAndPort(World, redisClient).host,
                                  resolveHostAndPort(World, redisClient).port),
                 did |-> Did(World, r.w)]

\* the client's connection has closed: the client reports closing, and the onEnd
\* listener of createNewClient logs it
OnEnd(redisClient) ==
  /\ ~clients[redisClient].closing
  /\ clients' = [clients EXCEPT ![redisClient].closing = TRUE]
  /\ last' = [op |-> "onEnd", redisClient |-> redisClient]
  /\ UNCHANGED <<redisClientsByHostPortKey, redisClientOptionsByHostPortKey,
                 hostPortKeysByHostPort, hostPortKeysMinted, pending, clearing,
                 endsFailed, clientFunctions>>

\* the callback of an `end` fires
EndAsyncSettles(task, endOutcome) ==
  /\ task.fn = "end"
  /\ \E w \in {execAsyncCallback(World, task, endOutcome)} :
        /\ WithinBounds(w)
        /\ Install(w)
        /\ last' = [op |-> "endAsync settled", task |-> task,
                    promise |-> DisconnectSettled(task), did |-> Did(World, w)]

\* Promise.all of a clearCache call settles
ClearCacheSettles(call) ==
  /\ PromiseAll(clearing[call]).state # "pending"
  /\ clearing' = [c \in DOMAIN clearing \ {call} |-> clearing[c]]
  /\ last' = [op |-> "clearCache settled", call |-> call,
              disconnectPromises |-> clearing[call],
              promise |-> PromiseAll(clearing[call])]
  /\ UNCHANGED <<redisClientsByHostPortKey, redisClientOptionsByHostPortKey,
                 hostPortKeysByHostPort, hostPortKeysMinted, clients, pending,
                 endsFailed, clientFunctions>>

\* the cache as callers can look it up: the client and the options used of every endpoint
Records(w) ==
  [hp \in Endpoints |-> <<getRedisClient(w, hp[1], hp[2]),
                          getRedisClientOptionsUsed(w, hp[1], hp[2])>>]

\* what setRedisClient would do in w with each of the options callers give: the part it
\* takes and the client it returns
Decisions(w) ==
  [redisClientOptions \in RedisClientOptions |->
     Let(setRedisClient(w, redisClientOptions, "ok"), LAMBDA s :
       <<s.branch, s.redisClient>>)]

\* o[name] = value by a caller that holds o: the write shows in every place that holds
\* the same object
WriteThrough(held, o, name, value) ==
  IF Has(o, Identity) /\ Get(o, Identity) = Get(held, Identity)
  THEN Put(o, name, value) ELSE o

\* the caller of the last setRedisClient writes to the options object it gave
WriteToOptions(name, value) ==
  /\ last.op \in {"setRedisClient", "write to options"}
  /\ last.redisClientOptions # UndefinedValue
  /\ Has(last.redisClientOptions.props, Identity)
  /\ redisClientOptionsByHostPortKey' =
       [k \in DOMAIN redisClientOptionsByHostPortKey |->
          WriteThrough(last.redisClientOptions.props, redisClientOptionsByHostPortKey[k],
                       name, value)]
  /\ clients' =
       [c \in DOMAIN clients |->
          [clients[c] EXCEPT !.options = WriteThrough(last.redisClientOptions.props, @,
                                                      name, value)]]
  /\ last' = [op |-> "write to options",
              redisClientOptions |-> Obj(Put(last.redisClientOptions.props, name, value)),
              name |-> name, value |-> value,
              host |-> last.host, port |-> last.port, branch |-> last.branch,
              found |-> [records |-> Records(World), decisions |-> Decisions(World)]]
  /\ UNCHANGED <<redisClientsByHostPortKey, hostPortKeysByHostPort, hostPortKeysMinted,
                 pending, clearing, endsFailed, clientFunctions>>

\* the invocations made through fnAsync whose callback has not fired
InFlight(w) == {task \in BagToSet(w.pending) : task.fn # "end"}

FewInFlight(w) ==
  /\ Cardinality(InFlight(w)) <= MaxInFlight
  /\ \A task \in InFlight(w) : CopiesIn(task, w.pending) = 1

\* a caller invokes a promisified function of a client it holds
FnAsync(redisClient, outcome) ==
  \E w \in {fnAsync(World, redisClient, redisClient, "get", outcome, CallerCont, 1)} :
     /\ WithinBounds(w)
     /\ FewInFlight(w)
     /\ Install(w)
     /\ last' = [op |-> "fnAsync", redisClient |-> redisClient, did |-> Did(World, w)]

IsRedisClientUsable(redisClient, pingOutcome) ==
  \E r \in {isRedisClientUsable(World, redisClient, pingOutcome, UsableCont)} :
     /\ WithinBounds(r.w)
     /\ FewInFlight(r.w)
     /\ Install(r.w)
     /\ last' = [op |-> "isRedisClientUsable", redisClient |-> redisClient,
                 closing |-> isClosing(World, redisClient),
                 promise |-> r.promise, did |-> Did(World, r.w)]

ReplaceRedisClientIfUnusable(redisClient, redisClientOptions, pingOutcome) ==
  \E w \in {replaceRedisClientIfUnusable(World, redisClient, redisClientOptions,
                                         pingOutcome)} :
     /\ WithinBounds(w)
     /\ FewInFlight(w)
     /\ Install(w)
     /\ last' = [op |-> "replaceRedisClientIfUnusable", redisClient |-> redisClient,
                 redisClientOptions |-> redisClientOptions,
                 closing |-> isClosing(World, redisClient), did |-> Did(World, w)]

\* what the prototype had under the name and under `${fnName}Async` before a step
FoundFunctions(fnName) ==
  [fn |-> getClientFunction(World, FnName(fnName)),
   fnAsync |-> getClientFunction(World, asyncFnName(fnName)),
   clientFunctions |-> clientFunctions]

PromisifyClientFunction(fnName) ==
  \E w \in {promisifyClientFunction(World, fnName)} :
     /\ Install(w)
     /\ last' = [op |-> "promisifyClientFunction", fnName |-> fnName,
                 found |-> FoundFunctions(fnName)]

\* a caller adds a callback-style function to the prototype, as the tests' addTestFn
SetClientFunction(fnName) ==
  \E w \in {setClientFunction(World, FnName(fnName), ClientFunction(fnName))} :
     /\ Install(w)
     /\ last' = [op |-> "setClientFunction", fnName |-> fnName,
                 found |-> FoundFunctions(fnName)]

\* a caller deletes the function and its promisified version, as the tests' removeTestFn
DeleteClientFunction(fnName) ==
  \E w \in {deleteClientFunction(deleteClientFunction(World, asyncFnName(fnName)),
                                 FnName(fnName))} :
     /\ Install(w)
     /\ last' = [op |-> "deleteClientFunction", fnName |-> fnName,
                 found |-> FoundFunctions(fnName)]

\* a caller calls `${fnName}Async` on a client it holds
CallAsync(redisClient, fnName, outcome) ==
  \E r \in {callAsync(World, redisClient, fnName, outcome)} :
     /\ WithinBounds(r.w)
     /\ FewInFlight(r.w)
     /\ Install(r.w)
     /\ last' = [op |-> "callAsync", redisClient |-> redisClient, fnName |-> fnName,
                 threw |-> r.threw, promise |-> r.promise,
                 found |-> FoundFunctions(fnName), did |-> Did(World, r.w)]

SetRedisClientAndReplaceIfUnusable(redisClientOptions, endOutcome, pingOutcome) ==
  \E r \in {setRedisClientAndReplaceIfUnusable(World, redisClientOptions, endOutcome,
                                               pingOutcome)} :
     /\ WithinBounds(r.w)
     /\ FewInFlight(r.w)
     /\ Install(r.w)
     /\ last' = [op |-> "setRedisClientAndReplaceIfUnusable",
                 redisClientOptions |-> redisClientOptions,
                 host |-> r.host, port |-> r.port, redisClient |-> r.redisClient,
                 did |-> Did(World, r.w)]

\* the callback of an invocation made through fnAsync fires
FnAsyncSettles(task, target, retryOutcome, endOutcome, endOutcome2) ==
  /\ task.fn # "end"
  /\ \E r \in {fnAsyncCallback(World, task, target, retryOutcome, endOutcome,
                               endOutcome2)} :
        /\ WithinBounds(r.w)
        /\ FewInFlight(r.w)
        /\ Install(r.w)
        /\ last' = [op |-> "fnAsync settled", task |-> task, target |-> target,
                    promise |-> r.promise, result |-> r.result,
                    newRedisClient |-> r.newRedisClient, options |-> r.options,
                    found |-> Found(World,
                                    getRedisClient(World,
                                      resolveHostAndPort(World, task.origin).host,
                                      resolveHostAndPort(World, task.origin).port),
                                    getRedisClientOptionsUsed(World,
                                      resolveHostAndPort(World, task.origin).host,
                                      resolveHostAndPort(World, task.origin).port)),
                    did |-> Did(World, r.w)]

\* callers of the cache, while every `end` works
Next ==
  \/ \E redisClientOptions \in RedisClientOptions : SetRedisClient(redisClientOptions, "ok")
  \/ \E hp \in Endpoints : GetRedisClientAndReplaceIfClosing(hp[1], hp[2])
  \/ \E redisClient \in ClientIds : DisconnectClient(redisClient, "ok")
  \/ \E redisClient \in ClientIds : OnError(redisClient, "ok")
  \/ \E redisClient \in ClientIds : OnEnd(redisClient)
  \/ \E hp \in Endpoints : DeleteAndDisconnectRedisClient(hp[1], hp[2], "ok")
  \/ \E task \in BagToSet(pending) : EndAsyncSettles(task, "ok")

Spec == Init /\ [][Next]_vars

\* deleting and clearing, while an `end` may fail
NextEndFails ==
  \/ \E redisClientOptions \in FewRedisClientOptions, endOutcome \in EndOutcomes :
       SetRedisClient(redisClientOptions, endOutcome)
  \/ \E hp \in Endpoints, endOutcome \in EndOutcomes :
       DeleteAndDisconnectRedisClient(hp[1], hp[2], endOutcome)
  \/ \E endOutcomes \in [ClientIds -> EndOutcomes] : ClearCache(endOutcomes)
  \/ \E redisClient \in ClientIds, endOutcome \in EndOutcomes :
       DisconnectClient(redisClient, endOutcome)
  \/ \E redisClient \in ClientIds : OnEnd(redisClient)
  \/ \E task \in BagToSet(pending), endOutcome \in EndOutcomes :
       EndAsyncSettles(task, endOutcome)
  \/ \E call \in DOMAIN clearing : ClearCacheSettles(call)

SpecEndFails == Init /\ [][NextEndFails]_vars

\* the outcomes the callback of a task can go on to: a second try is made after a MOVED
\* error of the first, a disconnect after any other error, another after an unusable ping
RetryOutcomes(task) ==
  IF task.attempt = 1 /\ task.outcome = "moved" THEN FnOutcomes ELSE {"ok"}

FnAsyncSettlesSomehow(task) ==
  \E target \in MovedTargets(World, task.client), retryOutcome \in RetryOutcomes(task),
     endOutcome \in EndOutcomes, endOutcome2 \in EndOutcomes :
    FnAsyncSettles(task, target, retryOutcome, endOutcome, endOutcome2)

\* callers that invoke promisified functions, which the server may answer with MOVED
NextInvoker ==
  \/ \E redisClientOptions \in FewRedisClientOptions :
       SetRedisClient(redisClientOptions, "ok")
  \/ \E hp \in Endpoints : DeleteAndDisconnectRedisClient(hp[1], hp[2], "ok")
  \/ \E redisClient \in ClientIds : OnEnd(redisClient)
  \/ \E redisClient \in ClientIds, outcome \in FnOutcomes : FnAsync(redisClient, outcome)
  \/ \E task \in BagToSet(pending), endOutcome \in EndOutcomes :
       EndAsyncSettles(task, endOutcome)
  \/ \E task \in InFlight(World) : FnAsyncSettlesSomehow(task)

SpecInvoker == Init /\ [][NextInvoker]_vars

\* callers that ask whether a client is usable, and for a usable one
NextUsable ==
  \/ \E redisClientOptions \in FewRedisClientOptions :
       SetRedisClient(redisClientOptions, "ok")
  \/ \E hp \in Endpoints : DeleteAndDisconnectRedisClient(hp[1], hp[2], "ok")
  \/ \E redisClient \in ClientIds : OnEnd(redisClient)
  \/ \E redisClient \in ClientIds, pingOutcome \in FnOutcomes :
       IsRedisClientUsable(redisClient, pingOutcome)
  \/ \E redisClient \in ClientIds, redisClientOptions \in FewRedisClientOptions,
        pingOutcome \in FnOutcomes :
       ReplaceRedisClientIfUnusable(redisClient, redisClientOptions, pingOutcome)
  \/ \E task \in BagToSet(pending), endOutcome \in EndOutcomes :
       EndAsyncSettles(task, endOutcome)
  \/ \E task \in InFlight(World) : FnAsyncSettlesSomehow(task)

SpecUsable == Init /\ [][NextUsable]_vars

\* callers that ask for a usable client by its options, among callers that set and delete
NextSetAndReplace ==
  \/ \E redisClientOptions \in FewRedisClientOptions :
       SetRedisClient(redisClientOptions, "ok")
  \/ \E redisClientOptions \in FewRedisClientOptions, pingOutcome \in FnOutcomes :
       SetRedisClientAndReplaceIfUnusable(redisClientOptions, "ok", pingOutcome)
  \/ \E hp \in Endpoints : DeleteAndDisconnectRedisClient(hp[1], hp[2], "ok")
  \/ \E redisClient \in ClientIds : OnEnd(redisClient)
  \/ \E task \in BagToSet(pending), endOutcome \in EndOutcomes :
       EndAsyncSettles(task, endOutcome)
  \/ \E task \in InFlight(World) : FnAsyncSettlesSomehow(task)

SpecSetAndReplace == Init /\ [][NextSetAndReplace]_vars

\* the names callers promisify and call: one that the redis client has, one that it has
\* only when a caller has added it
FnNames == {"get", "testFn"}

\* callers that promisify functions of the client prototype and call them
NextPromisify ==
  \/ SetRedisClient(UndefinedValue, "ok")
  \/ \E fnName \in FnNames : PromisifyClientFunction(fnName)
  \/ SetClientFunction("testFn")
  \/ DeleteClientFunction("testFn")
  \/ \E redisClient \in ClientIds, fnName \in FnNames, outcome \in FnOutcomes :
       CallAsync(redisClient, fnName, outcome)
  \/ \E redisClient \in ClientIds : OnEnd(redisClient)
  \/ \E task \in BagToSet(pending), endOutcome \in EndOutcomes :
       EndAsyncSettles(task, endOutcome)
  \/ \E task \in InFlight(World) : FnAsyncSettlesSomehow(task)

SpecPromisify == Init /\ [][NextPromisify]_vars

\* the options object the caller of the last setRedisClient holds, written to or not
HeldNow ==
  IF /\ last.op \in {"setRedisClient", "write to options"}
     /\ last.redisClientOptions # UndefinedValue
     /\ Has(last.redisClientOptions.props, Identity)
  THEN {last.redisClientOptions} ELSE {}

\* callers that write to the options objects they have given to setRedisClient
NextSnapshot ==
  \/ \E redisClientOptions \in HeldOptions \cup HeldNow :
       SetRedisClient(redisClientOptions, "ok")
  \/ \E write \in Writes : WriteToOptions(write[1], write[2])
  \/ \E hp \in Endpoints : GetRedisClientAndReplaceIfClosing(hp[1], hp[2])
  \/ \E hp \in Endpoints : DeleteAndDisconnectRedisClient(hp[1], hp[2], "ok")
  \/ \E redisClient \in ClientIds : OnEnd(redisClient)

SpecSnapshot == Init /\ [][NextSnapshot]_vars

----------------------------------------------------------------------------
(* The contract of setRedisClient *)

\* the step taken last was a call of setRedisClient
WasSetRedisClient == last.op = "setRedisClient"

\* setRedisClient found a client cached for the host and port, and it was not closing
FoundOpen == last.found.redisClient # NoClient /\ ~last.found.closing

\* what is cached now for the host and port of the step taken last
CachedNow == getRedisClient(World, last.host, last.port)

OptionsUsedNow == getRedisClientOptionsUsed(World, last.host, last.port)

\* the step taken last returned the client it found, and left it and its options cached
ReusedUnchanged ==
  /\ last.redisClient = last.found.redisClient
  /\ last.did.created = 0
  /\ CachedNow = last.found.redisClient
  /\ OptionsUsedNow = last.found.optionsUsed

\* two objects of primitives with the same name-value pairs, in whatever order
SameProperties(a, b) == {a[i] : i \in 1..Len(a)} = {b[i] : i \in 1..Len(b)}

\* the caller gave no options: none at all, or an object without own properties
GaveNoOptions ==
  last.redisClientOptions = UndefinedValue \/ last.redisClientOptions.props = <<>>

\* C1: after setRedisClient has returned a client, getRedisClient for the resolved host
\* and port returns that same client, whichever branch was taken (create, reuse, replace
\* closing, replace incompatible); when nothing was cached for the host and port, a new
\* client is constructed, cached and returned.
C1_SetThenGetSame ==
  WasSetRedisClient =>
    /\ last.redisClient # NoClient
    /\ last.branch \in {"create", "reuse", "replace closing", "replace incompatible"}
    /\ last.host = (IF last.redisClientOptions # UndefinedValue
                       /\ Has(last.redisClientOptions.props, "host")
                    THEN Get(last.redisClientOptions.props, "host") ELSE defaultHost)
    /\ last.port = (IF last.redisClientOptions # UndefinedValue
                       /\ Has(last.redisClientOptions.props, "port")
                    THEN Get(last.redisClientOptions.props, "port") ELSE defaultPort)
    /\ CachedNow = last.redisClient
    /\ last.found.redisClient = NoClient =>
         /\ last.branch = "create"
         /\ last.did.created = 1
         /\ last.redisClient = Len(clients)

\* a setRedisClient that replaced an incompatible client, and the new one is what
\* getRedisClient returns
C1_Witness ==
  /\ WasSetRedisClient
  /\ last.branch = "replace incompatible"
  /\ last.did.created = 1
  /\ CachedNow = last.redisClient

\* C2: when a client A that is not closing is cached and the options given hold more than
\* host and port and are not deep-equal to the options used for A, setRedisClient returns
\* a new client B other than A, getRedisClient then returns B, and getRedisClientOptionsUsed
\* returns the options given with the defaults put in.
C2_IncompatibleReplaced ==
  ( /\ WasSetRedisClient
    /\ FoundOpen
    /\ OwnPropertyNames(last.options) \ {"host", "port"} # {}
    /\ ~SameProperties(last.found.optionsUsed.props, last.options) ) =>
    /\ last.redisClient # last.found.redisClient
    /\ last.did.created = 1
    /\ last.redisClient = Len(clients)
    /\ CachedNow = last.redisClient
    /\ OptionsUsedNow = Obj(last.options)

\* an open client with host and port only was replaced by one with string_numbers
C2_Witness ==
  /\ WasSetRedisClient
  /\ FoundOpen
  /\ Len(last.found.optionsUsed.props) = 2
  /\ Has(last.options, "string_numbers")
  /\ last.redisClient # last.found.redisClient
  /\ OptionsUsedNow = Obj(last.options)

\* C3: when the options given hold only a host and a port and a client that is not closing
\* is cached for them, setRedisClient returns the cached client whatever options were used
\* for it, and neither the cached client nor the options used change.
C3_HostAndPortOnlyReuses ==
  ( /\ WasSetRedisClient
    /\ FoundOpen
    /\ last.redisClientOptions # UndefinedValue
    /\ OwnPropertyNames(last.redisClientOptions.props) = {"host", "port"} ) =>
    ReusedUnchanged

\* host and port only were given, and the cached client had been made with more
C3_Witness ==
  /\ WasSetRedisClient
  /\ FoundOpen
  /\ last.redisClientOptions # UndefinedValue
  /\ OwnPropertyNames(last.redisClientOptions.props) = {"host", "port"}
  /\ Len(last.found.optionsUsed.props) = 3
  /\ ReusedUnchanged

\* C4: when no options are given (none, or an object with no own properties) and a client
\* that is not closing is cached for the default host and port, setRedisClient returns it
\* and constructs, evicts and disconnects nothing.
C4_NoOptionsReuses ==
  (WasSetRedisClient /\ GaveNoOptions) =>
    /\ last.host = defaultHost
    /\ last.port = defaultPort
    /\ FoundOpen =>
         /\ ReusedUnchanged
         /\ last.did.disconnects = {}
         /\ last.did.ended = {}

\* no options were given, and the client cached for the defaults had been made with more
C4_Witness ==
  /\ WasSetRedisClient
  /\ GaveNoOptions
  /\ FoundOpen
  /\ Len(last.found.optionsUsed.props) = 3
  /\ ReusedUnchanged

\* C5: when the options given, with the defaults put in, are strictly deep-equal to the
\* options used for a cached client that is not closing, setRedisClient returns the cached
\* client; the order of the properties does not matter.
C5_IdenticalReuses ==
  ( /\ WasSetRedisClient
    /\ FoundOpen
    /\ SameProperties(last.found.optionsUsed.props, last.options) ) =>
    ReusedUnchanged

\* the options given equal the options used but for the order of their properties
C5_Witness ==
  /\ WasSetRedisClient
  /\ FoundOpen
  /\ Len(last.options) = 3
  /\ SameProperties(last.found.optionsUsed.props, last.options)
  /\ last.found.optionsUsed.props # last.options
  /\ ReusedUnchanged

\* C6: setRedisClient never returns a client that is closing when it decides: a cached
\* client that is closing is evicted, and a new one is cached and returned; when no options
\* were given, the options used for the new one are exactly the resolved host and port.
C6_NeverReturnsClosing ==
  WasSetRedisClient =>
    /\ ~isClosing(World, last.redisClient)
    /\ last.found.closing =>
         /\ last.redisClient # last.found.redisClient
         /\ last.did.created = 1
         /\ last.redisClient = Len(clients)
         /\ CachedNow = last.redisClient
         /\ GaveNoOptions =>
              OptionsUsedNow = Obj(<< <<"host", defaultHost>>, <<"port", defaultPort>> >>)

\* no options were given, and the closing client cached for the defaults had been made
\* with more than host and port
C6_Witness ==
  /\ WasSetRedisClient
  /\ GaveNoOptions
  /\ last.found.closing
  /\ Len(last.found.optionsUsed.props) = 3
  /\ last.branch = "replace closing"
  /\ OptionsUsedNow = Obj(<< <<"host", defaultHost>>, <<"port", defaultPort>> >>)

----------------------------------------------------------------------------
(* The contract of getRedisClientAndReplaceIfClosing *)

\* C10: getRedisClientAndReplaceIfClosing returns nothing and creates nothing when nothing
\* is cached for the host and port; returns the cached client and leaves the cache as it
\* is when that client is not closing; and when it is closing returns a new client, other
\* than the old one, cached for the same host and port with the same options used.
C10_GetAndReplaceIfClosing ==
  last.op = "getRedisClientAndReplaceIfClosing" =>
    /\ last.found.redisClient = NoClient =>
         /\ last.redisClient = NoClient
         /\ last.did.created = 0
         /\ CachedNow = NoClient
    /\ FoundOpen => ReusedUnchanged
    /\ last.found.closing =>
         /\ last.redisClient \notin {NoClient, last.found.redisClient}
         /\ last.did.created = 1
         /\ last.redisClient = Len(clients)
         /\ ~isClosing(World, last.redisClient)
         /\ resolveHostAndPort(World, last.redisClient) = [host |-> last.host, port |-> last.port]
         /\ CachedNow = last.redisClient
         /\ OptionsUsedNow = last.found.optionsUsed

\* a closing client made with more than host and port was replaced
C10_Witness ==
  /\ last.op = "getRedisClientAndReplaceIfClosing"
  /\ last.found.closing
  /\ Len(last.found.optionsUsed.props) = 3
  /\ last.redisClient # last.found.redisClient
  /\ OptionsUsedNow = last.found.optionsUsed

----------------------------------------------------------------------------
(* The contract of deleteAndDisconnectRedisClient and of clearCache *)

\* the step taken last was a call of deleteAndDisconnectRedisClient
WasDeleteAndDisconnect == last.op = "deleteAndDisconnectRedisClient"

\* the client is cached for none of the endpoints
Uncached(redisClient) ==
  \A hp \in Endpoints : getRedisClient(World, hp[1], hp[2]) # redisClient

\* an `end` of the client has failed
EndFailed(redisClient) == \E i \in 1..Len(endsFailed) : endsFailed[i] = redisClient

\* C7: deleteAndDisconnectRedisClient for a host and port with a cached client returns
\* deleted = true; a second call for the same host and port, with no setRedisClient in
\* between, returns deleted = false; after either call getRedisClient returns nothing.
C7_DeleteOnceThenNoMore ==
  WasDeleteAndDisconnect =>
    /\ last.deleted = (last.found.redisClient # NoClient)
    /\ CachedNow = NoClient
    /\ \A endOutcome \in EndOutcomes :
         Let(deleteAndDisconnectRedisClient(World, last.host, last.port, endOutcome),
             LAMBDA again : /\ ~again.deleted
                            /\ getRedisClient(again.w, last.host, last.port) = NoClient)

\* a cached client was deleted, and a second call would find nothing to delete
C7_Witness ==
  /\ WasDeleteAndDisconnect
  /\ last.found.redisClient # NoClient
  /\ last.deleted
  /\ CachedNow = NoClient
  /\ ~deleteAndDisconnectRedisClient(World, last.host, last.port, "ok").deleted

\* C8: deleteAndDisconnectRedisClient removes the client from the cache before it returns,
\* while the disconnect is still to complete; the client stays out of the cache when the
\* disconnect completes, whether it worked or failed; and a disconnect that fails does not
\* make the disconnect promise returned reject.
C8_EvictedWhateverTheDisconnect ==
  /\ (WasDeleteAndDisconnect /\ last.found.redisClient # NoClient) =>
       /\ CachedNow = NoClient
       /\ OptionsUsedNow = UndefinedValue
       /\ last.found.redisClient \in last.did.disconnects
       /\ last.disconnectPromise.state # "rejected"
       /\ ~last.found.closing =>
            /\ last.found.redisClient \in last.did.ended
            /\ last.disconnectPromise = Pending
  /\ \A task \in BagToSet(pending) : task.cont = DeleteCont => Uncached(task.client)
  /\ (last.op = "endAsync settled" /\ last.task.cont = DeleteCont) =>
       /\ Uncached(last.task.client)
       /\ last.promise = Resolved(IF last.task.outcome = "ok" THEN "true" ELSE "false")

\* the disconnect of a deleted client has failed: the client is still out of the cache and
\* the promise is resolved
C8_Witness ==
  /\ last.op = "endAsync settled"
  /\ last.task.cont = DeleteCont
  /\ last.task.outcome = "err"
  /\ Uncached(last.task.client)
  /\ last.promise = Resolved("false")

\* C9: after clearCache has been called getRedisClient returns nothing for every host and
\* port that had a client cached, a disconnect has been started on every client that was
\* cached, and the promise returned resolves, and never rejects, even when a disconnect
\* fails: the failure is reported as disconnected = false for the host and port of the
\* client whose disconnect failed, and for no other.
C9_ClearCacheEvictsAndReports ==
  /\ last.op = "clearCache" =>
       \A hp \in Endpoints :
         /\ getRedisClient(World, hp[1], hp[2]) = NoClient
         /\ getRedisClientOptionsUsed(World, hp[1], hp[2]) = UndefinedValue
         /\ last.found[hp].redisClient # NoClient =>
              /\ last.found[hp].redisClient \in last.did.disconnects
              /\ last.found[hp].closing \/ last.found[hp].redisClient \in last.did.ended
              /\ \E i \in 1..Len(last.disconnectPromises) :
                   /\ last.disconnectPromises[i].host = hp[1]
                   /\ last.disconnectPromises[i].port = hp[2]
                   /\ last.disconnectPromises[i].client = last.found[hp].redisClient
                   /\ last.disconnectPromises[i].deleted
  /\ (last.op = "endAsync settled" /\ last.task.cont.kind = "clearCache") =>
       /\ clearing[last.task.cont.call][last.task.cont.slot].client = last.task.client
       /\ clearing[last.task.cont.call][last.task.cont.slot].state = "resolved"
       /\ clearing[last.task.cont.call][last.task.cont.slot].disconnected =
            (IF last.task.outcome = "ok" THEN "true" ELSE "false")
  /\ last.op = "clearCache settled" =>
       /\ last.promise.state = "resolved"
       /\ Len(last.promise.value) = Len(last.disconnectPromises)
       /\ \A i \in 1..Len(last.disconnectPromises) :
            /\ last.promise.value[i].host = last.disconnectPromises[i].host
            /\ last.promise.value[i].port = last.disconnectPromises[i].port
            /\ last.promise.value[i].disconnected = "false" =>
                 /\ last.disconnectPromises[i].client # NoClient
                 /\ EndFailed(last.disconnectPromises[i].client)
            /\ ( /\ last.disconnectPromises[i].client # NoClient
                 /\ ~EndFailed(last.disconnectPromises[i].client) ) =>
                 last.promise.value[i].disconnected = "true"

\* a clearCache of two clients has settled: one disconnect failed and the other worked
C9_Witness ==
  /\ last.op = "clearCache settled"
  /\ last.promise.state = "resolved"
  /\ Len(last.promise.value) = 2
  /\ \E i, j \in 1..2 :
       /\ last.promise.value[i].disconnected = "false"
       /\ last.promise.value[j].disconnected = "true"
       /\ last.disconnectPromises[j].client # NoClient

----------------------------------------------------------------------------
(* The contract of replaceRedisClientIfUnusable and isRedisClientUsable *)

\* the step taken last settled the promise of a replaceRedisClientIfUnusable call
ReplaceSettled ==
  /\ last.op = "fnAsync settled"
  /\ last.task.cont.kind = "replaceRedisClientIfUnusable"
  /\ last.result.state # "pending"

\* the ping of the step taken last was rejected
PingRejected == last.task.fn = "ping" /\ last.promise.state = "rejected"

\* the client given to the call was the one cached for its host and port
GivenWasCached == last.found.redisClient = last.task.cont.redisClient

\* the client cached now for the host and port of a client
CachedFor(redisClient) ==
  getRedisClient(World, resolveHostAndPort(World, redisClient).host,
                 resolveHostAndPort(World, redisClient).port)

\* the options given to the call name no other host and port than the client given has
GivenOptionsAgree ==
  \/ last.task.cont.redisClientOptions = UndefinedValue
  \/ /\ resolveHostAndPortFromOptions(last.task.cont.redisClientOptions.props).host
          = resolveHostAndPort(World, last.task.cont.redisClient).host
     /\ resolveHostAndPortFromOptions(last.task.cont.redisClientOptions.props).port
          = resolveHostAndPort(World, last.task.cont.redisClient).port

\* C11, as claimed: replaceRedisClientIfUnusable on a cached client whose ping fails
\* resolves with another client than the one given, and getRedisClient for the host and
\* port of the client given returns that new client.
C11_Claimed ==
  (ReplaceSettled /\ PingRejected /\ GivenWasCached) =>
    /\ last.result.state = "resolved"
    /\ last.result.value # last.task.cont.redisClient
    /\ CachedFor(last.task.cont.redisClient) = last.result.value

\* C11, amended: replaceRedisClientIfUnusable on a cached client whose ping fails
\* resolves, also when the disconnect of the old client fails, with another client than
\* the one given; getRedisClient for the host and port the new client was made for
\* returns it, and these are the host and port of the client given when no options are
\* given or the options given name the same host and port.
C11_ReplacedAndCachedWhereMade ==
  (ReplaceSettled /\ PingRejected /\ GivenWasCached) =>
    /\ last.result.state = "resolved"
    /\ last.result.value # last.task.cont.redisClient
    /\ last.result.value = Len(clients)
    /\ last.did.created = 1
    /\ CachedFor(last.result.value) = last.result.value
    /\ GivenOptionsAgree => CachedFor(last.task.cont.redisClient) = last.result.value
    /\ ~GivenOptionsAgree => CachedFor(last.task.cont.redisClient) = NoClient

\* a cached client's ping was rejected, the `end` of the old client failed, and the
\* promise resolved with a new client cached for the old client's host and port
C11_Witness ==
  /\ ReplaceSettled /\ PingRejected /\ GivenWasCached
  /\ last.task.cont.redisClient \in last.did.ended
  /\ \E i \in 1..Len(endsFailed) : endsFailed[i] = last.task.cont.redisClient
  /\ last.result.state = "resolved"
  /\ last.result.value # last.task.cont.redisClient
  /\ CachedFor(last.task.cont.redisClient) = last.result.value

\* the ping of the step taken last was answered, at the first try or the second
PingResolved == last.task.fn = "ping" /\ last.promise.state = "resolved"

\* the step taken last made no client, disconnected none and deleted none
DidNothing ==
  /\ last.did.created = 0
  /\ last.did.disconnects = {}
  /\ last.did.ended = {}
  /\ last.did.invoked = {}

Replaced ==
  /\ ReplaceSettled
  /\ last.result.state = "resolved"
  /\ last.result.value # last.task.cont.redisClient

\* C13: when replaceRedisClientIfUnusable replaces an unusable client, the new client is
\* made with the options given if any are given, otherwise with the options cached for
\* the old client's host and port, otherwise with the old client's own options.
C13_OptionsOfTheReplacement ==
  Replaced =>
    /\ clients[last.result.value].options =
         resolveHostAndPortFromOptions(
           IF last.task.cont.redisClientOptions # UndefinedValue
           THEN last.task.cont.redisClientOptions.props
           ELSE IF last.found.optionsUsed # UndefinedValue
           THEN last.found.optionsUsed.props
           ELSE clients[last.task.cont.redisClient].options).options
    /\ getRedisClientOptionsUsed(World, clients[last.result.value].host,
                                 clients[last.result.value].port)
         = Obj(clients[last.result.value].options)

\* no options were given and none were cached: the new client has the old one's options
C13_Witness ==
  /\ Replaced
  /\ last.task.cont.redisClientOptions = UndefinedValue
  /\ last.found.optionsUsed = UndefinedValue
  /\ clients[last.result.value].options = clients[last.task.cont.redisClient].options

\* C14: isRedisClientUsable on a client that is closing resolves false, and invokes no
\* ping, nor any other function, on the client.
C14_ClosingIsUnusableUnpinged ==
  /\ (last.op = "isRedisClientUsable" /\ last.closing) =>
       /\ last.promise.state = "resolved"
       /\ last.promise.value = "false"
       /\ last.did.invoked = {}
       /\ last.did.ended = {}
  /\ (last.op = "replaceRedisClientIfUnusable" /\ last.closing) =>
       last.did.invoked = {}

\* isRedisClientUsable was called on a closing client and resolved false
C14_Witness ==
  /\ last.op = "isRedisClientUsable"
  /\ last.closing
  /\ last.promise.state = "resolved"
  /\ last.promise.value = "false"
  /\ last.did.invoked = {}

\* the step taken last settled the promise of an isRedisClientUsable call
UsableSettled ==
  /\ last.op = "fnAsync settled"
  /\ last.task.cont.kind = "isRedisClientUsable"
  /\ last.promise.state # "pending"

\* C15: isRedisClientUsable never rejects: for a client that is not closing it pings, and
\* resolves true when the ping succeeds and false when the ping is rejected, whatever
\* the error.
C15_UsableNeverRejects ==
  /\ last.op = "isRedisClientUsable" =>
       /\ last.promise.state # "rejected"
       /\ ~last.closing =>
            /\ last.promise.state = "pending"
            /\ last.did.invoked = {<<"ping", last.redisClient>>}
  /\ UsableSettled =>
       /\ last.result.state = "resolved"
       /\ last.result.value = (IF last.promise.state = "resolved" THEN "true" ELSE "false")

\* a ping was rejected with a MOVED error at its second try, and isRedisClientUsable
\* resolved false
C15_Witness ==
  /\ UsableSettled
  /\ last.promise.state = "rejected"
  /\ last.promise.value.error = "moved"
  /\ last.result.state = "resolved"
  /\ last.result.value = "false"

----------------------------------------------------------------------------
(* The contract of the promisified client functions *)

\* the step taken last was the callback of a function a caller invoked
CallbackFired == last.op = "fnAsync settled" /\ last.task.fn # "then"

\* the callback of the first try reported a MOVED error
FirstTryMoved == CallbackFired /\ last.task.attempt = 1 /\ last.task.outcome = "moved"

\* the callback of the second try has fired
SecondTryDone == CallbackFired /\ last.task.attempt = 2

\* C16: when a promisified function fails with a MOVED error that names a host and port
\* and the second try succeeds, a client is cached for that host and port, the function
\* was invoked on that client, and the caller's promise resolves with the reply of the
\* second try.
C16_MovedThenRetried ==
  /\ FirstTryMoved =>
       /\ last.newRedisClient # NoClient
       /\ getRedisClient(World, last.target[1], last.target[2]) = last.newRedisClient
       /\ clients[last.newRedisClient].host = last.target[1]
       /\ clients[last.newRedisClient].port = last.target[2]
       /\ last.did.invoked = {<<last.task.fn, last.newRedisClient>>}
       /\ last.result.state = "pending"
       /\ \E retry \in BagToSet(pending) :
            /\ retry.fn = last.task.fn
            /\ retry.client = last.newRedisClient
            /\ retry.origin = last.task.origin
            /\ retry.cont = last.task.cont
            /\ retry.attempt = 2
  /\ (SecondTryDone /\ last.task.outcome = "ok") =>
       /\ last.task.client # last.task.origin
       /\ last.promise.state = "resolved"
       /\ last.promise.value = Reply(last.task)
       /\ last.task.cont.kind = "caller" => last.result = last.promise

\* the second try, on the client of the new host and port, succeeded, and the caller's
\* promise resolved with its reply
C16_Witness ==
  /\ SecondTryDone
  /\ last.task.outcome = "ok"
  /\ last.task.cont.kind = "caller"
  /\ last.task.client # last.task.origin
  /\ last.result.state = "resolved"
  /\ last.result.value.client = last.task.client
  /\ last.result.value.attempt = 2

\* C17: when a promisified function fails with an error that is not a MOVED error, the
\* client it was invoked on is disconnected, the function is not tried again, and the
\* caller's promise rejects with that error.
C17_ErrorDisconnectsAndRejects ==
  (CallbackFired /\ last.task.attempt = 1 /\ last.task.outcome = "err") =>
    /\ last.task.client \in last.did.disconnects
    /\ last.task.client \in last.did.ended \/ clients[last.task.client].closing
    /\ last.did.invoked = {}
    /\ last.newRedisClient = NoClient
    /\ last.promise.state = "rejected"
    /\ last.promise.value = Error(last.task)
    /\ last.task.cont.kind = "caller" => last.result = last.promise

\* a function failed at its first try: its client was ended and the promise rejected
C17_Witness ==
  /\ CallbackFired
  /\ last.task.attempt = 1
  /\ last.task.outcome = "err"
  /\ last.task.cont.kind = "caller"
  /\ last.task.client \in last.did.ended
  /\ last.result.state = "rejected"
  /\ last.result.value.error = "err"

\* C18: when the second try, after a MOVED error, fails as well, the client of the new
\* host and port is disconnected, and not the client first invoked on, and the caller's
\* promise rejects with the error of the second try.
C18_RetryErrorDisconnectsTheNewClient ==
  (SecondTryDone /\ last.task.outcome # "ok") =>
    /\ last.task.client # last.task.origin
    /\ last.did.disconnects = {last.task.client}
    /\ last.did.ended \subseteq {last.task.client}
    /\ last.promise.state = "rejected"
    /\ last.promise.value = Error(last.task)
    /\ last.promise.value.attempt = 2
    /\ last.task.cont.kind = "caller" => last.result = last.promise

\* the second try failed: the new client was ended, the first was not, and the promise
\* rejected with the second error
C18_Witness ==
  /\ SecondTryDone
  /\ last.task.outcome = "err"
  /\ last.task.cont.kind = "caller"
  /\ last.task.client \in last.did.ended
  /\ last.task.origin \notin last.did.disconnects
  /\ ~clients[last.task.origin].closing
  /\ last.result.state = "rejected"
  /\ last.result.value.attempt = 2

\* C19: for one call of a promisified function the function is invoked at most twice;
\* when the second try fails with a MOVED error there is no third try and no client is
\* made for the host and port it names.
C19_AtMostOneRetry ==
  /\ \A task \in BagToSet(pending) : task.fn # "end" => task.attempt \in {0, 1, 2}
  /\ CallbackFired =>
       /\ last.did.invoked # {} => FirstTryMoved
       /\ Cardinality(last.did.invoked) <= 1
  /\ (SecondTryDone /\ last.task.outcome = "moved") =>
       /\ last.did.invoked = {}
       /\ last.did.created = 0
       /\ last.newRedisClient = NoClient
       /\ last.promise.state = "rejected"

\* the second try failed with a MOVED error, and nothing was invoked or made after it
C19_Witness ==
  /\ SecondTryDone
  /\ last.task.outcome = "moved"
  /\ last.did.invoked = {}
  /\ last.did.created = 0
  /\ last.result.state = "rejected"
  /\ last.result.value.error = "moved"

----------------------------------------------------------------------------
(* The lookups with the host and port left out *)

\* C20: getRedisClient and getRedisClientOptionsUsed called with the host, the port or
\* both left out look up the default host and port instead, so that after setRedisClient
\* with no options getRedisClient() returns the client cached for the default host and
\* port.  The code looks up the key of `undefined:undefined` and finds nothing.
C20_OmittedHostAndPortDefaulted ==
  (WasSetRedisClient /\ GaveNoOptions) =>
    \A host \in {Undefined, defaultHost}, port \in {Undefined, defaultPort} :
      /\ getRedisClient(World, host, port) = last.redisClient
      /\ getRedisClientOptionsUsed(World, host, port)
           = getRedisClientOptionsUsed(World, defaultHost, defaultPort)

----------------------------------------------------------------------------
(* The error listener *)

\* C21: when a cached client emits `error`, a disconnect of that very client is started
\* and the client is evicted: getRedisClient for its host and port no longer returns it.
\* The listener only disconnects; the client stays cached, closing.
C21_ErrorDisconnectsAndEvicts ==
  (last.op = "onError" /\ last.cached) =>
    /\ last.redisClient \in last.did.disconnects
    /\ CachedFor(last.redisClient) # last.redisClient

----------------------------------------------------------------------------
(* The options used are a snapshot *)

\* C22: the options stored for a cached client are a snapshot taken when the client was
\* made: a write to the options object given to setRedisClient, made after the call has
\* returned, changes neither what getRedisClientOptionsUsed returns for any host and
\* port nor what setRedisClient decides afterwards for any options.
C22_OptionsUsedAreASnapshot ==
  last.op = "write to options" =>
    /\ Records(World) = last.found.records
    /\ Decisions(World) = last.found.decisions

\* the caller has written to the options object a cached client was made from, and the
\* object now differs from the options used
C22_Witness ==
  /\ last.op = "write to options"
  /\ last.branch \in {"create", "replace incompatible"}
  /\ OptionsUsedNow # UndefinedValue
  /\ Get(OptionsUsedNow.props, last.name) # last.value
  /\ Get(last.redisClientOptions.props, last.name) = last.value

----------------------------------------------------------------------------
(* Calls for one endpoint that interleave *)

\* the host and port the options given to the call resolve to
GivenEndpoint ==
  resolveHostAndPortFromOptions(IF last.task.cont.redisClientOptions # UndefinedValue
                                THEN last.task.cont.redisClientOptions.props ELSE <<>>)

\* C23: when the promise of setRedisClientAndReplaceIfUnusable resolves with a client, that
\* client is the one cached for the host and port the options resolve to, whatever was
\* called for that host and port while the ping was pending.  A client that was deleted
\* or replaced meanwhile and whose ping succeeds is handed out although it is no longer
\* cached.
C23_ResolvesWithTheCachedClient ==
  ReplaceSettled =>
    /\ last.result.state = "resolved"
    /\ getRedisClient(World, GivenEndpoint.host, GivenEndpoint.port) = last.result.value

\* the clients on which a disconnect has been started: `end` was invoked on them
Disconnecting(w) ==
  {redisClient \in 1..Len(w.clients) :
     \/ redisClient \in w.ended
     \/ \E task \in BagToSet(w.pending) : task.fn = "end" /\ task.client = redisClient
     \/ \E i \in 1..Len(w.endsFailed) : w.endsFailed[i] = redisClient}

\* the clients that are open, cached for no host and port, and not being disconnected
LiveUncached(w) ==
  {redisClient \in 1..Len(w.clients) :
     /\ ~isClosing(w, redisClient)
     /\ redisClient \notin Disconnecting(w)
     /\ \A hp \in Endpoints : getRedisClient(w, hp[1], hp[2]) # redisClient}

\* the states the callbacks that can fire next lead to
AfterCallback ==
  UNION {{fnAsyncCallback(World, task, target, retryOutcome, endOutcome, endOutcome2).w :
            target \in MovedTargets(World, task.client),
            retryOutcome \in RetryOutcomes(task),
            endOutcome \in EndOutcomes, endOutcome2 \in EndOutcomes} :
         task \in InFlight(World)}

\* C24: whatever was called, and however the calls interleaved, every client ever made
\* that is not the one cached for its host and port is closing or has had a disconnect
\* started on it, in every state reached and in every state a callback that can fire
\* next leads to.  The handler of replaceRedisClientIfUnusable deletes whatever is cached
\* for the host and port of the client it was given: a client that took its place while
\* the ping was pending is deleted and never disconnected.
C24_AtMostOneLiveClient ==
  /\ LiveUncached(World) = {}
  /\ \A w \in AfterCallback : LiveUncached(w) = {}

\* the states the operations that can be called next lead to
AfterOperation ==
  {setRedisClient(World, redisClientOptions, endOutcome).w :
     redisClientOptions \in FewRedisClientOptions, endOutcome \in EndOutcomes}
  \cup {getRedisClientAndReplaceIfClosing(World, hp[1], hp[2]).w : hp \in Endpoints}
  \cup {deleteAndDisconnectRedisClient(World, hp[1], hp[2], endOutcome).w :
          hp \in Endpoints, endOutcome \in EndOutcomes}
  \cup {clearCache(World, 1, endOutcomes).w : endOutcomes \in [ClientIds -> EndOutcomes]}

\* the clients that are cached now and are no longer cached for their host and port in w
Evicted(w) ==
  {Records(World)[hp][1] : hp \in {e \in Endpoints : Records(w)[e][1] # Records(World)[e][1]}}
    \ {NoClient}

\* C25: whenever setRedisClient, getRedisClientAndReplaceIfClosing, the handler of
\* replaceRedisClientIfUnusable, deleteAndDisconnectRedisClient or clearCache evicts a
\* client, that client is closing already or the operation calls disconnectClient on
\* it, also when calls for the same host and port interleave.  The handler of
\* replaceRedisClientIfUnusable disconnects the client it was given and evicts the client
\* that is cached, which is another one when a call for the same host and port replaced
\* the record while the ping was pending.
C25_EvictorDisconnects ==
  \A w \in AfterOperation \cup AfterCallback :
    \A redisClient \in Evicted(w) :
      isClosing(World, redisClient) \/ redisClient \in w.disconnects

HasRecord(w, hp) ==
  /\ getRedisClient(w, hp[1], hp[2]) # NoClient
  /\ getRedisClientOptionsUsed(w, hp[1], hp[2]) # UndefinedValue

\* the host and port the options handed on with the task resolve to
OptionsEndpoint(task) ==
  <<resolveHostAndPortFromOptions(task.cont.redisClientOptions.props).host,
    resolveHostAndPortFromOptions(task.cont.redisClientOptions.props).port>>

\* the task is the ping of a replaceRedisClientIfUnusable of a client of the host and port
\* hp, called with options that name another host and port
NamesAnother(task, hp) ==
  /\ task.cont.kind = "replaceRedisClientIfUnusable"
  /\ task.cont.redisClientOptions # UndefinedValue
  /\ hp = <<resolveHostAndPort(World, task.cont.redisClient).host,
            resolveHostAndPort(World, task.cont.redisClient).port>>
  /\ hp # OptionsEndpoint(task)

\* every host and port that has a record now has one in w
KeepsRecords(w) == \A hp \in Endpoints : HasRecord(World, hp) => HasRecord(w, hp)

\* no replacing operation that can be called next leaves a host and port without the
\* record it has; replaceRedisClientIfUnusable is taken up to its return
ReplacementKeepsRecords ==
  /\ \A redisClientOptions \in FewRedisClientOptions, endOutcome \in EndOutcomes :
       \A w \in {setRedisClient(World, redisClientOptions, endOutcome).w} :
         KeepsRecords(w)
  /\ \A hp \in Endpoints :
       \A w \in {getRedisClientAndReplaceIfClosing(World, hp[1], hp[2]).w} :
         KeepsRecords(w)
  /\ \A redisClient \in ClientIds, redisClientOptions \in FewRedisClientOptions,
        pingOutcome \in FnOutcomes :
       \A w \in {replaceRedisClientIfUnusable(World, redisClient, redisClientOptions,
                                               pingOutcome)} :
         KeepsRecords(w)

\* C26, as claimed: once a host and port have a record, no step of a setRedisClient, a
\* getRedisClientAndReplaceIfClosing or a replaceRedisClientIfUnusable leaves them without
\* one for a continuation to see: after the step they have the old record or the new.
C26_Claimed ==
  /\ ReplacementKeepsRecords
  /\ \A task \in InFlight(World) :
       \A target \in MovedTargets(World, task.client),
          retryOutcome \in RetryOutcomes(task),
          endOutcome \in EndOutcomes, endOutcome2 \in EndOutcomes :
         \A w \in {fnAsyncCallback(World, task, target, retryOutcome, endOutcome,
                                    endOutcome2).w} :
           KeepsRecords(w)

\* C26, amended: the same, except that the handler of a replaceRedisClientIfUnusable
\* called with options that name another host and port than the client's puts the new
\* record under the host and port of the options, and leaves the client's without one.
C26_NoStepLeavesTheEndpointBare ==
  /\ ReplacementKeepsRecords
  /\ \A task \in InFlight(World) :
       \A target \in MovedTargets(World, task.client),
          retryOutcome \in RetryOutcomes(task),
          endOutcome \in EndOutcomes, endOutcome2 \in EndOutcomes :
         \A w \in {fnAsyncCallback(World, task, target, retryOutcome, endOutcome,
                                    endOutcome2).w} :
           \A hp \in Endpoints :
             HasRecord(World, hp) =>
               \/ HasRecord(w, hp)
               \/ NamesAnother(task, hp) /\ HasRecord(w, OptionsEndpoint(task))

\* a replaceRedisClientIfUnusable of the cached client has replaced it: the ping failed,
\* and the host and port have the new record
C26_Witness ==
  /\ ReplaceSettled /\ PingRejected /\ GivenWasCached /\ GivenOptionsAgree
  /\ last.did.created = 1
  /\ HasRecord(World, <<resolveHostAndPort(World, last.task.cont.redisClient).host,
                        resolveHostAndPort(World, last.task.cont.redisClient).port>>)
  /\ CachedFor(last.task.cont.redisClient) = last.result.value
  /\ last.result.value # last.task.cont.redisClient

----------------------------------------------------------------------------
(* setRedisClient and the disconnect of the client it replaces *)

\* C27: when setRedisClient replaces an incompatible cached client, the client it returns
\* and the cache it leaves are the same whether the `end` of the old client works or
\* fails: the new client is returned, cached with the options it was made with.
C27_ReplacesWhateverTheDisconnect ==
  /\ \A redisClientOptions \in FewRedisClientOptions :
       LET ok == setRedisClient(World, redisClientOptions, "ok")
           err == setRedisClient(World, redisClientOptions, "err")
       IN ok.branch = "replace incompatible" =>
            /\ err.branch = "replace incompatible"
            /\ err.redisClient = ok.redisClient
            /\ Records(err.w) = Records(ok.w)
  /\ (WasSetRedisClient /\ last.branch = "replace incompatible") =>
       /\ last.redisClient # last.found.redisClient
       /\ last.did.created = 1
       /\ CachedNow = last.redisClient
       /\ OptionsUsedNow = Obj(last.options)
       /\ ~clients[last.redisClient].closing

\* setRedisClient has replaced an incompatible client whose `end` it started fails
C27_Witness ==
  /\ WasSetRedisClient
  /\ last.branch = "replace incompatible"
  /\ last.found.redisClient \in last.did.ended
  /\ \E task \in BagToSet(pending) :
       task.fn = "end" /\ task.client = last.found.redisClient /\ task.outcome = "err"
  /\ CachedNow = last.redisClient

----------------------------------------------------------------------------
(* The other endpoints *)

\* the operations that are given one host and port, or options that resolve to one
ForOneEndpoint ==
  {"setRedisClient", "getRedisClientAndReplaceIfClosing", "deleteAndDisconnectRedisClient"}

\* C28: setRedisClient, getRedisClientAndReplaceIfClosing and
\* deleteAndDisconnectRedisClient for one host and port leave the client cached and the
\* options used of every other host and port as they were.
C28_OtherEndpointsUntouched ==
  [][last'.op \in ForOneEndpoint =>
       \A hp \in Endpoints :
         hp # <<last'.host, last'.port>> => Records(World)'[hp] = Records(World)[hp]]_vars

\* a client was deleted, or replaced, for one host and port while another host and port
\* had a client cached
C28_Witness ==
  /\ last.op \in ForOneEndpoint
  /\ last.found.redisClient # NoClient
  /\ CachedNow # last.found.redisClient
  /\ \E hp \in Endpoints :
       hp # <<last.host, last.port>> /\ getRedisClient(World, hp[1], hp[2]) # NoClient

----------------------------------------------------------------------------
(* Promisifying *)

\* the function installed wraps dummyFn
WrapsDummyFn(installed) ==
  /\ installed # UndefinedValue
  /\ installed.kind = "execAsync"
  /\ installed.fn.kind = "dummyFn"

\* C29: promisifyClientFunction for a name whose `Async` function is installed already
\* leaves that function, and the rest of the prototype, as they are; for a name the
\* prototype has no function of, it installs a function whose calls do not throw and
\* return a promise that rejects.
C29_PromisifyOnceAndRejectWhenMissing ==
  /\ last.op = "promisifyClientFunction" =>
       /\ last.found.fnAsync # UndefinedValue => clientFunctions = last.found.clientFunctions
       /\ (last.found.fnAsync = UndefinedValue /\ last.found.fn = UndefinedValue) =>
            WrapsDummyFn(getClientFunction(World, asyncFnName(last.fnName)))
  /\ (last.op = "callAsync" /\ WrapsDummyFn(last.found.fnAsync)) =>
       /\ last.threw = Undefined
       /\ last.promise.state = "pending"
       /\ <<last.fnName, last.redisClient>> \in last.did.invoked
  /\ ( /\ last.op = "fnAsync settled"
       /\ last.task.cont.kind = "caller"
       /\ last.task.cont.fn.kind = "dummyFn" ) =>
       /\ last.result.state = "rejected"
       /\ last.result.value.error = "err"

\* a function was promisified while the prototype had none of its name, the caller has
\* added one since, and a second promisifyClientFunction has left the first in place
C29_Witness ==
  /\ last.op = "promisifyClientFunction"
  /\ WrapsDummyFn(last.found.fnAsync)
  /\ last.found.fn = ClientFunction(last.fnName)
  /\ getClientFunction(World, asyncFnName(last.fnName)) = last.found.fnAsync

----------------------------------------------------------------------------
(* The list of clearCache *)

\* C30: the list clearCache resolves to has exactly one outcome per host and port that had
\* a client cached when clearCache was called, each with deleted = true; a host and port
\* whose client was evicted before do not appear in it.  deleteClientByHostPortKey never
\* removes the key of an evicted host and port from the keys listed, so clearCache goes
\* over it again and reports deleted = false for it.
C30_OneOutcomePerCachedEndpoint ==
  /\ last.op = "clearCache" =>
       /\ \A i \in 1..Len(last.disconnectPromises) :
            /\ last.disconnectPromises[i].deleted
            /\ last.found[<<last.disconnectPromises[i].host,
                            last.disconnectPromises[i].port>>].redisClient # NoClient
       /\ \A hp \in Endpoints :
            Cardinality({i \in 1..Len(last.disconnectPromises) :
                           /\ last.disconnectPromises[i].host = hp[1]
                           /\ last.disconnectPromises[i].port = hp[2]})
              = IF last.found[hp].redisClient # NoClient THEN 1 ELSE 0
  /\ last.op = "clearCache settled" =>
       /\ last.promise.state = "resolved"
       /\ Len(last.promise.value) = Len(last.disconnectPromises)
       /\ \A i \in 1..Len(last.promise.value) : last.promise.value[i].deleted

----------------------------------------------------------------------------
(* A property that is there and undefined *)

\* the names of the options given, other than host and port, whose value is undefined
UndefinedOthers ==
  {name \in OwnPropertyNames(last.redisClientOptions.props) \ {"host", "port"} :
     Get(last.redisClientOptions.props, name) = Undefined}

\* C31: a property of the options given that is there with the value undefined counts as
\* an own property of the copy with the defaults: options of host, port and such a
\* property are not taken as host and port only, and they are not deep-equal to options
\* used in which the property is false.  setRedisClient with them replaces the cached
\* open client: the old one is deleted and disconnected, and a new one is made, cached
\* with the options given, and returned.
C31_UndefinedPropertyCounts ==
  ( /\ WasSetRedisClient
    /\ FoundOpen
    /\ last.redisClientOptions # UndefinedValue
    /\ \E name \in UndefinedOthers : Get(last.found.optionsUsed.props, name) = "false" ) =>
    /\ Cardinality(OwnPropertyNames(last.options)) > 2
    /\ last.branch = "replace incompatible"
    /\ last.redisClient # last.found.redisClient
    /\ last.did.created = 1
    /\ last.did.disconnects = {last.found.redisClient}
    /\ CachedNow = last.redisClient
    /\ OptionsUsedNow = Obj(last.options)
    /\ Has(OptionsUsedNow.props, "string_numbers")
    /\ Get(OptionsUsedNow.props, "string_numbers") = Undefined

\* a client made with string_numbers: false was cached and open, and setRedisClient with
\* string_numbers: undefined for its host and port has replaced it
C31_Witness ==
  /\ WasSetRedisClient
  /\ FoundOpen
  /\ Get(last.found.optionsUsed.props, "string_numbers") = "false"
  /\ last.redisClientOptions # UndefinedValue
  /\ Has(last.redisClientOptions.props, "string_numbers")
  /\ Get(last.redisClientOptions.props, "string_numbers") = Undefined
  /\ last.redisClient # last.found.redisClient
  /\ CachedNow = last.redisClient

----------------------------------------------------------------------------
(* The options of a client made after a MOVED error *)

\* the invocations whose callback is about to report a MOVED error at the first try
MovedNext == {task \in InFlight(World) : task.fn # "then" /\ task.attempt = 1 /\ task.outcome = "moved"}

\* the options the catch handler starts from: the options used that are stored for the
\* host and port of the client that failed, or else that client's own options
OldOptions(task) ==
  IF getRedisClientOptionsUsed(World, resolveHostAndPort(World, task.client).host,
                               resolveHostAndPort(World, task.client).port) # UndefinedValue
  THEN getRedisClientOptionsUsed(World, resolveHostAndPort(World, task.client).host,
                                 resolveHostAndPort(World, task.client).port).props
  ELSE getOptions(World, task.client)

\* the options are those of `old` with the host and port of the target in place of its own
SameButHostAndPort(options, old, target) ==
  /\ OwnPropertyNames(options) = OwnPropertyNames(old) \cup {"host", "port"}
  /\ Get(options, "host") = target[1]
  /\ Get(options, "port") = target[2]
  /\ \A name \in OwnPropertyNames(old) \ {"host", "port"} : Get(options, name) = Get(old, name)

\* C32: when a MOVED error names a host and port for which nothing is cached, the client
\* made for them is made and cached with the options used that are stored for the host and
\* port of the client that failed (or, when none are stored, that client's own options)
\* with only the host and port replaced by those named; the options stored for the host
\* and port of the client that failed stay as they are.
C32_MovedClientGetsTheOldOptions ==
  \A task \in MovedNext :
    \A target \in {hp \in MovedTargets(World, task.client) :
                     getRedisClient(World, hp[1], hp[2]) = NoClient},
       retryOutcome \in FnOutcomes :
      \A r \in {fnAsyncCallback(World, task, target, retryOutcome, "ok", "ok")} :
        /\ r.newRedisClient = Len(clients) + 1
        /\ getRedisClient(r.w, target[1], target[2]) = r.newRedisClient
        /\ getRedisClientOptionsUsed(r.w, target[1], target[2]) # UndefinedValue
        /\ SameButHostAndPort(getRedisClientOptionsUsed(r.w, target[1], target[2]).props,
                              OldOptions(task), target)
        /\ SameButHostAndPort(getOptions(r.w, r.newRedisClient), OldOptions(task), target)
        /\ \A hp \in Endpoints \ {target} : Records(r.w)[hp] = Records(World)[hp]

\* a function invoked on a client made with string_numbers has failed with a MOVED error
\* naming a host and port that never had a client, and the client made for them is cached
\* with string_numbers and that host and port
C32_Witness ==
  /\ FirstTryMoved
  /\ last.did.created = 1
  /\ last.did.disconnects = {}
  /\ \A redisClient \in ClientIds \ {last.newRedisClient} :
       <<clients[redisClient].host, clients[redisClient].port>> # last.target
  /\ last.found.optionsUsed # UndefinedValue
  /\ Has(last.found.optionsUsed.props, "string_numbers")
  /\ getRedisClient(World, last.target[1], last.target[2]) = last.newRedisClient
  /\ SameButHostAndPort(getRedisClientOptionsUsed(World, last.target[1], last.target[2]).props,
                        last.found.optionsUsed.props, last.target)

----------------------------------------------------------------------------
(* A client and its options used are cached together *)

\* in w, the host and ports that have a client cached are those that have options used
\* stored, and the two WeakMaps hold the same keys
Paired(w) ==
  /\ DOMAIN w.redisClientsByHostPortKey = DOMAIN w.redisClientOptionsByHostPortKey
  /\ \A hp \in Endpoints :
       getRedisClient(w, hp[1], hp[2]) # NoClient
         <=> getRedisClientOptionsUsed(w, hp[1], hp[2]) # UndefinedValue

\* C33: in every state reached, and in every state an operation that can be called next
\* or a callback that can fire next leads to, the host and ports that have a client cached
\* are exactly those that have options used stored: no client is cached without its
\* options, and no options are kept without their client.
C33_ClientAndOptionsTogether ==
  /\ Paired(World)
  /\ \A w \in AfterOperation \cup AfterCallback : Paired(w)

\* one host and port has lost its client and options used to a delete while the other
\* keeps both
C33_Witness ==
  /\ WasDeleteAndDisconnect
  /\ last.deleted
  /\ last.found.optionsUsed # UndefinedValue
  /\ getRedisClient(World, last.host, last.port) = NoClient
  /\ getRedisClientOptionsUsed(World, last.host, last.port) = UndefinedValue
  /\ \E hp \in Endpoints : HasRecord(World, hp)

----------------------------------------------------------------------------
(* After a function has failed *)

\* the options callers give that resolve to the host and port of the client
OptionsFor(redisClient) ==
  {redisClientOptions \in RedisClientOptions :
     /\ resolveHostAndPortFromOptions(IF redisClientOptions # UndefinedValue
                                      THEN redisClientOptions.props ELSE <<>>).host
          = clients[redisClient].host
     /\ resolveHostAndPortFromOptions(IF redisClientOptions # UndefinedValue
                                      THEN redisClientOptions.props ELSE <<>>).port
          = clients[redisClient].port}

\* a function invoked on a cached client has just failed with an error that is no MOVED
\* error, the catch handler has disconnected the client, and it is closing and still cached
FailedAndClosing ==
  /\ CallbackFired
  /\ last.promise.state = "rejected"
  /\ ~(last.task.attempt = 1 /\ last.task.outcome = "moved")
  /\ last.task.client \in last.did.disconnects
  /\ clients[last.task.client].closing
  /\ CachedFor(last.task.client) = last.task.client

\* C34: once a promisified function invoked on a cached client has rejected with an error
\* that is no MOVED error and the disconnect started by the catch handler has left the
\* client closing, a setRedisClient that comes next for the client's host and port, with
\* whatever options, returns another client, which is open and cached for that host and
\* port; and so does every setRedisClient that finds a closing client cached.
C34_SetRedisClientHeals ==
  /\ FailedAndClosing =>
       \A redisClientOptions \in OptionsFor(last.task.client), endOutcome \in EndOutcomes :
         \A s \in {setRedisClient(World, redisClientOptions, endOutcome)} :
           /\ s.cached = last.task.client
           /\ s.redisClient # last.task.client
           /\ s.redisClient = Len(clients) + 1
           /\ ~isClosing(s.w, s.redisClient)
           /\ getRedisClient(s.w, clients[last.task.client].host,
                             clients[last.task.client].port) = s.redisClient
           /\ s.w.ended = {}
  /\ (WasSetRedisClient /\ last.found.closing) =>
       /\ last.redisClient # last.found.redisClient
       /\ last.did.created = 1
       /\ CachedNow = last.redisClient
       /\ ~clients[last.redisClient].closing

\* a function invoked on the cached client of a host and port has failed, the `end` the
\* catch handler invoked has left the client closing, and the client is still cached
C34_Witness ==
  /\ FailedAndClosing
  /\ last.task.outcome = "err"
  /\ last.task.client \in last.did.ended
  /\ OptionsFor(last.task.client) # {}

----------------------------------------------------------------------------
(* replaceRedisClientIfUnusable and a client cached meanwhile *)

\* the handlers of replaceRedisClientIfUnusable that can run next
ReplaceNext == {task \in InFlight(World) : task.cont.kind = "replaceRedisClientIfUnusable"}

\* C35: the handler of replaceRedisClientIfUnusable(c) evicts what is cached for the host
\* and port of c only when that is c: when another client is cached for them, because it
\* was cached while the ping of c was pending, it is still cached after the handler has
\* run.  The handler deletes whatever is cached under the key of c's host and port
\* without looking at the client cached there.
C35_EvictsOnlyTheClientGiven ==
  \A task \in ReplaceNext :
    \A target \in MovedTargets(World, task.client), retryOutcome \in RetryOutcomes(task),
       endOutcome \in EndOutcomes, endOutcome2 \in EndOutcomes :
      \A r \in {fnAsyncCallback(World, task, target, retryOutcome, endOutcome, endOutcome2)} :
        ( /\ r.result.state = "resolved"
          /\ CachedFor(task.cont.redisClient) \notin {NoClient, task.cont.redisClient} ) =>
          getRedisClient(r.w, resolveHostAndPort(World, task.cont.redisClient).host,
                         resolveHostAndPort(World, task.cont.redisClient).port)
            = CachedFor(task.cont.redisClient)

----------------------------------------------------------------------------
(* A MOVED error that names a host and port with an open client *)

\* the host and ports a MOVED error of the task can name that have an open client cached
OpenTargets(task) ==
  {hp \in MovedTargets(World, task.client) :
     /\ getRedisClient(World, hp[1], hp[2]) # NoClient
     /\ ~isClosing(World, getRedisClient(World, hp[1], hp[2]))}

\* the options the catch handler gives to setRedisClient
MovedOptions(task, target) == Put(Put(OldOptions(task), "host", target[1]), "port", target[2])

\* setRedisClient takes the open client cached for the target with these options: they
\* hold a host and a port only, or they are deep-equal to the options used for it
TakesCached(task, target) ==
  \/ OwnPropertyNames(MovedOptions(task, target)) = {"host", "port"}
  \/ SameProperties(getRedisClientOptionsUsed(World, target[1], target[2]).props,
                    MovedOptions(task, target))

\* after the callback the client that was cached for the target is still cached, open and
\* not disconnected, and the second try was made with it
RetriedWithCached(r, target) ==
  /\ r.newRedisClient = getRedisClient(World, target[1], target[2])
  /\ Records(r.w) = Records(World)
  /\ r.w.disconnects = {}
  /\ r.w.ended = {}
  /\ Len(r.w.clients) = Len(clients)
  /\ ~isClosing(r.w, r.newRedisClient)
  /\ \E retry \in InFlight(r.w) : retry.attempt = 2 /\ retry.client = r.newRedisClient

\* C36, as claimed: when a MOVED error names a host and port that have an open client
\* cached, the second try is made with that client, and it is neither evicted nor
\* disconnected, whatever options it was made with.
C36_Claimed ==
  \A task \in MovedNext :
    \A target \in OpenTargets(task), retryOutcome \in FnOutcomes :
      \A r \in {fnAsyncCallback(World, task, target, retryOutcome, "ok", "ok")} :
        RetriedWithCached(r, target)

\* C36, amended: the same when the options of the client that failed, with the host and
\* port named in place of its own, hold a host and a port only or are deep-equal to the
\* options the cached client was made with; otherwise the cached client is evicted and
\* disconnected, and the second try is made with a new client cached in its place.
C36_CachedTargetTakenWhenCompatible ==
  \A task \in MovedNext :
    \A target \in OpenTargets(task), retryOutcome \in FnOutcomes :
      \A r \in {fnAsyncCallback(World, task, target, retryOutcome, "ok", "ok")} :
        IF TakesCached(task, target)
        THEN RetriedWithCached(r, target)
        ELSE /\ r.newRedisClient = Len(clients) + 1
             /\ getRedisClient(r.w, target[1], target[2]) = r.newRedisClient
             /\ getRedisClientOptionsUsed(r.w, target[1], target[2])
                  = Obj(MovedOptions(task, target))
             /\ r.w.disconnects = {getRedisClient(World, target[1], target[2])}
             /\ \E retry \in InFlight(r.w) :
                  retry.attempt = 2 /\ retry.client = r.newRedisClient

\* a MOVED error has named a host and port whose cached client, made with string_numbers,
\* was open: nothing was made or disconnected, and the second try is with that client
C36_Witness ==
  /\ FirstTryMoved
  /\ last.did.created = 0
  /\ last.did.disconnects = {}
  /\ last.newRedisClient # NoClient
  /\ ~clients[last.newRedisClient].closing
  /\ getRedisClient(World, last.target[1], last.target[2]) = last.newRedisClient
  /\ Has(getRedisClientOptionsUsed(World, last.target[1], last.target[2]).props,
         "string_numbers")
  /\ last.did.invoked = {<<last.task.fn, last.newRedisClient>>}

----------------------------------------------------------------------------
(* An `end` that keeps failing *)

\* the failing `end` invocations on the client whose callback has not fired
FailingEnds(w, redisClient) ==
  {task \in BagToSet(w.pending) :
     task.fn = "end" /\ task.client = redisClient /\ task.outcome = "err"}

\* the state after the callbacks of up to n failing `end` invocations on the client have
\* fired one after the other, every `end` the catch handler goes on to invoke failing too
RECURSIVE AfterFailingEnds(_, _, _)
AfterFailingEnds(w, redisClient, n) ==
  IF n = 0 \/ FailingEnds(w, redisClient) = {} THEN w
  ELSE AfterFailingEnds(
         execAsyncCallback(w, CHOOSE task \in FailingEnds(w, redisClient) : TRUE, "err"),
         redisClient, n - 1)

\* C38: a disconnectClient of an open client invokes `end` a bounded number of times, and
\* its promise resolves with false when `end` fails: once the callbacks of MaxChain failing
\* `end` invocations have fired, no further `end` has been invoked on the client.  The
\* catch handler of the promisified `end` calls disconnectClient again, which invokes
\* `end` again as long as the client is not closing: each failure starts the next try.
C38_EndInvokedBoundedly ==
  /\ (last.op = "endAsync settled" /\ last.task.outcome = "err"
        /\ last.task.cont.kind \in {"none", "clearCache"}) =>
       last.promise = Resolved("false")
  /\ \A redisClient \in ClientIds :
       (~isClosing(World, redisClient) /\ FailingEnds(World, redisClient) # {}) =>
         \A w \in {AfterFailingEnds(World, redisClient, MaxChain)} :
           \/ FailingEnds(w, redisClient) = {}
           \/ isClosing(w, redisClient)

----------------------------------------------------------------------------
(* A ping that is answered with a MOVED error *)

\* the callback of a ping of isRedisClientUsable has fired and its promise has settled
UsableAnswered ==
  /\ CallbackFired
  /\ last.task.fn = "ping"
  /\ last.task.cont.kind \in {"isRedisClientUsable", "replaceRedisClientIfUnusable"}
  /\ last.promise.state # "pending"

\* C37: isRedisClientUsable(c) answers true only when the ping that succeeded was invoked
\* on c: a ping of c that fails with a MOVED error does not make c usable because the
\* second try, with the client of the host and port named, succeeded.  isRedisClientUsable
\* pings through pingAsync, which follows the MOVED error, and takes the reply of the
\* second try as the answer for c.
C37_UsableOnlyByItsOwnPing ==
  /\ (UsableAnswered /\ last.task.cont.kind = "isRedisClientUsable"
        /\ last.result = Resolved("true")) =>
       last.task.client = last.task.origin
  /\ (UsableAnswered /\ last.task.cont.kind = "replaceRedisClientIfUnusable"
        /\ last.result = Resolved(last.task.cont.redisClient)) =>
       last.task.client = last.task.cont.redisClient

----------------------------------------------------------------------------
(* The host-port keys *)

\* C39: hostPortKeysByHostPort holds at most one key object per host and port, and it
\* holds one for a host and port exactly when a client is cached for them: an eviction
\* removes the key as well, and a later lookup makes a new key object.
\* deleteClientByHostPortKey gives the key object to hostPortKeysByHostPort.delete, whose
\* keys are the host-port strings, so the key of an evicted host and port stays.
C39_KeyExactlyWhenCached ==
  /\ \A i, j \in 1..Len(hostPortKeysByHostPort) :
       hostPortKeysByHostPort[i].key = hostPortKeysByHostPort[j].key => i = j
  /\ \A hp \in Endpoints :
       getHostPortKey(World, hp[1], hp[2]) # UndefinedValue
         <=> WeakHas(redisClientsByHostPortKey, getHostPortKey(World, hp[1], hp[2]))
  /\ Len(hostPortKeysByHostPort) = Cardinality(DOMAIN redisClientsByHostPortKey)

====
